---- MODULE Spec2Model ----
(***************************************************************************)
(* Verification model of the invoice extraction / pricing core of          *)
(* aws-document-processing.                                                *)
(*                                                                         *)
(* Each component is modelled with its own specification:                  *)
(*   SpecRound    - price_utils.round_price_colombian                      *)
(*   SpecEnhance  - TextractDataEnhancer.enhance_extracted_data            *)
(*   SpecPricing  - PricingRecommendationEngine.recommend_sale_price       *)
(*   SpecSeparate - TextractDataEnhancer._separate_item_and_ref            *)
(*   SpecDecimal  - _parse_decimal and _clean_decimal_field                *)
(*   SpecGraph    - TextractService reading a Textract block graph         *)
(*   SpecItems    - TextractService._extract_line_items                    *)
(*   SpecStore    - InvoiceProcessorService, the in-memory store           *)
(*   SpecDb       - InvoiceProcessorService on the database                *)
(*   SpecDbFair   - SpecDb with the background tasks scheduled fairly      *)
(*                                                                         *)
(* A Python dict is a function from its keys to values.  Scalar values are *)
(* records [k, n, d, s]: k is the kind ("none" = None, "num" = Decimal,    *)
(* "str" = str, "int" = int), n/d an exact fraction, s a string as a       *)
(* sequence of one-character strings.  Decimal arithmetic is modelled      *)
(* exactly (fractions in lowest terms); the 28-digit rounding of the       *)
(* decimal context is below the resolution of every comparison made.       *)
(***************************************************************************)
EXTENDS Integers, Sequences, FiniteSets, TLC

VARIABLES
    pc,          \* position of the modelled call sequence
    price,       \* SpecRound: argument of round_price_colombian
    rounded,     \* SpecRound: its return value (-1 before the call)
    raw_data,    \* SpecEnhance: the dict passed to enhance_extracted_data
    enhanced,    \* SpecEnhance: outcome of the first enhancement call
    enhanced2,   \* SpecEnhance: outcome of enhancing the enhanced data again
    request,     \* SpecPricing: arguments of recommend_sale_price
    response,    \* SpecPricing: outcome of recommend_sale_price
    args,        \* the arguments of a call of one of the other functions
    returned,    \* what that call returned
    processed_invoices,  \* SpecStore: InvoiceProcessorService.processed_invoices
    sleeping,    \* SpecStore: the uploads waiting in asyncio.sleep
    uploads,     \* SpecStore: number of uploads so far (the upload timestamp)
    last_call,   \* SpecStore: the last call and the records it touched
    db,          \* SpecDb: the committed rows of the database, by table
    in_flight,   \* SpecDb: the uploads between their SELECT and their COMMIT
    tasks,       \* SpecDb: the background tasks, by invoice id
    issued,      \* SpecDb: number of invoice ids handed out so far
    db_call      \* SpecDb: the call or task step just made, and its outcome

vars ==
    <<pc, price, rounded, raw_data, enhanced, enhanced2, request, response,
      args, returned, processed_invoices, sleeping, uploads, last_call,
      db, in_flight, tasks, issued, db_call>>

(***************************************************************************)
(* Bounds of the model.                                                    *)
(***************************************************************************)
MaxPrice == 16000

\* line items per invoice
MaxItems == 2

\* quantities range over -1..MaxQty
MaxQty == 2

\* unit prices range over BasePrice - PriceSpread .. BasePrice + PriceSpread
BasePrice == 20

PriceSpread == 1

\* cost prices range over 1..MaxCost, besides a few larger ones
MaxCost == 60

\* row positions range over 1..MaxLine, besides those of the tests
MaxLine == 3

\* longest generated text given to the decimal parsers
MaxText == 4

\* the cells of a table lie in a MaxTableRows x MaxTableCols grid
MaxTableRows == 2

MaxTableCols == 4

\* uploads made to the invoice service in one behaviour
MaxUploads == 3

\* invoice ids handed out in one behaviour of the database service
MaxInvoices == 2

\* max_invoices_month of the tenant that exists from the start
PlanLimit == 1

(***************************************************************************)
(* Integer helpers.                                                        *)
(***************************************************************************)
Abs(x) == IF x < 0 THEN -x ELSE x

RECURSIVE Gcd(_, _)
Gcd(a, b) == IF b = 0 THEN a ELSE Gcd(b, a % b)

\* a ceiling that adds one to the quotient whether or not there is a remainder
FloorPlusOne(n, d) == n \div d + 1

\* math.ceil(n / d) for d > 0
Ceil(n, d) == -((-n) \div d)

\* Python's round(n / d) for d > 0: round half to even
RoundHalfEven(n, d) ==
    LET q == n \div d
        r == n % d
    IN  IF 2 * r > d \/ (2 * r = d /\ q % 2 = 1) THEN q + 1 ELSE q

(***************************************************************************)
(* price_utils.py                                                          *)
(***************************************************************************)
\* A mis-reading of always_up: the top tier rounds to the nearest 1,000.
RoundToNearestNoCeil(n, d, nearest, always_up) ==
    RoundHalfEven(n, d * nearest) * nearest

\* _round_to_nearest on the price n/d
_round_to_nearest(n, d, nearest, always_up) ==
    IF always_up
    THEN Ceil(n, d * nearest) * nearest
    ELSE RoundHalfEven(n, d * nearest) * nearest

\* round_price_colombian on the price n/d (d > 0); the result is an integer
round_price_colombian(n, d) ==
    IF n >= 10000 * d THEN _round_to_nearest(n, d, 1000, TRUE)
    ELSE IF n >= 1000 * d THEN _round_to_nearest(n, d, 500, FALSE)
    ELSE IF n >= 100 * d THEN _round_to_nearest(n, d, 100, FALSE)
    ELSE _round_to_nearest(n, d, 50, FALSE)

(***************************************************************************)
(* Python values.                                                          *)
(***************************************************************************)
NoneV == [k |-> "none", n |-> 0, d |-> 1, s |-> <<>>]

TrueV == [k |-> "true", n |-> 1, d |-> 1, s |-> <<>>]

Str(chars) == [k |-> "str", n |-> 0, d |-> 1, s |-> chars]

\* a Python int (item_number, unit_multiplier, a non-string product code)
IntV(i) == [k |-> "int", n |-> i, d |-> 1, s |-> <<>>]

\* a Decimal, kept as the fraction n/d in lowest terms with d > 0
Num(n, d) ==
    LET g == Gcd(Abs(n), d)
    IN  [k |-> "num", n |-> n \div g, d |-> d \div g, s |-> <<>>]

\* the value of a failed conversion (an exception inside the model)
Invalid == [k |-> "invalid", n |-> 0, d |-> 1, s |-> <<>>]

\* dict.get(key, default), "key in dict" and dict[key] = value
Get(dict, key, default) == IF key \in DOMAIN dict THEN dict[key] ELSE default

Has(dict, key) == key \in DOMAIN dict

Put(dict, key, value) ==
    [x \in DOMAIN dict \cup {key} |-> IF x = key THEN value ELSE dict[x]]

\* bool(v) for a modelled value
Truthy(v) ==
    CASE v.k = "none" -> FALSE
      [] v.k = "num" -> v.n # 0
      [] v.k = "int" -> v.n # 0
      [] v.k = "str" -> v.s # <<>>
      [] OTHER -> TRUE

\* Decimal * Decimal and Decimal / Decimal(str(multiplier))
NumMul(a, b) == Num(a.n * b.n, a.d * b.d)
\* A conversion that leaves the price of the pack as the price per piece.
NumNotDivided(a, i) == a

NumDivInt(a, m) == Num(a.n, a.d * m)

(***************************************************************************)
(* Strings: sequences of one-character strings.                            *)
(***************************************************************************)
Digits == <<"0", "1", "2", "3", "4", "5", "6", "7", "8", "9">>

LowerLetters ==
    <<"a", "b", "c", "d", "e", "f", "g", "h", "i", "j", "k", "l", "m",
      "n", "o", "p", "q", "r", "s", "t", "u", "v", "w", "x", "y", "z">>

UpperLetters ==
    <<"A", "B", "C", "D", "E", "F", "G", "H", "I", "J", "K", "L", "M",
      "N", "O", "P", "Q", "R", "S", "T", "U", "V", "W", "X", "Y", "Z">>

Range(f) == {f[i] : i \in DOMAIN f}

DigitChars == Range(Digits)

\* \s
SpaceChars == {" ", "\t", "\n"}

IsSpace(c) == c \in SpaceChars

\* \w
IsWordChar(c) ==
    c \in Range(Digits) \cup Range(LowerLetters) \cup Range(UpperLetters) \cup {"_"}

DigitValue(c) == (CHOOSE i \in DOMAIN Digits : Digits[i] = c) - 1

\* str.upper() on one character
UpperChar(c) ==
    IF c \in Range(LowerLetters)
    THEN UpperLetters[CHOOSE i \in DOMAIN LowerLetters : LowerLetters[i] = c]
    ELSE c

\* str.upper()
Upper(str) == [i \in DOMAIN str |-> UpperChar(str[i])]

\* str.strip()
Strip(str) ==
    LET keep == {i \in DOMAIN str : ~IsSpace(str[i])}
    IN  IF keep = {} THEN <<>>
        ELSE SubSeq(str, CHOOSE i \in keep : \A j \in keep : i <= j,
                         CHOOSE i \in keep : \A j \in keep : i >= j)

\* length of the longest prefix of str made of characters of the class
PrefixLen(str, class) ==
    LET stop == {i \in DOMAIN str : str[i] \notin class}
    IN  IF stop = {} THEN Len(str)
        ELSE (CHOOSE i \in stop : \A j \in stop : i <= j) - 1

Drop(str, count) == SubSeq(str, count + 1, Len(str))

\* re.sub(r'\s+', ' ', str)
RECURSIVE CollapseWs(_)
CollapseWs(str) ==
    IF str = <<>> THEN <<>>
    ELSE IF IsSpace(Head(str))
         THEN <<" ">> \o CollapseWs(Drop(str, PrefixLen(str, SpaceChars)))
         ELSE <<Head(str)>> \o CollapseWs(Tail(str))

\* int(digits) for a non-empty string of digits
RECURSIVE DigitsToInt(_)
DigitsToInt(str) ==
    IF str = <<>> THEN 0
    ELSE 10 * DigitsToInt(SubSeq(str, 1, Len(str) - 1)) + DigitValue(str[Len(str)])

RECURSIVE Pow10(_)
Pow10(e) == IF e = 0 THEN 1 ELSE 10 * Pow10(e - 1)

\* str.count(c), c in str
Count(str, c) == Cardinality({i \in DOMAIN str : str[i] = c})

\* case-insensitive "str starts with word"
StartsWithNoCase(str, word) ==
    Len(str) >= Len(word) /\ Upper(SubSeq(str, 1, Len(word))) = Upper(word)

\* Decimal(text) for the literals [sign] digits [. digits] (surrounding
\* whitespace allowed); every other text of the modelled alphabet raises
\* InvalidOperation, returned as Invalid.
PyDecimal(text) ==
    LET t == Strip(text)
        neg == t # <<>> /\ Head(t) = "-"
        u == IF t # <<>> /\ Head(t) \in {"-", "+"} THEN Tail(t) ELSE t
        ni == PrefixLen(u, DigitChars)
        afterInt == Drop(u, ni)
        hasDot == afterInt # <<>> /\ Head(afterInt) = "."
        frac == IF hasDot THEN Tail(afterInt) ELSE <<>>
        nf == PrefixLen(frac, DigitChars)
        wellFormed == /\ ni + nf >= 1
                      /\ (~hasDot => afterInt = <<>>)
                      /\ (hasDot => nf = Len(frac))
        digits == SubSeq(u, 1, ni) \o frac
        magnitude == DigitsToInt(digits)
    IN  IF wellFormed
        THEN Num(IF neg THEN -magnitude ELSE magnitude, Pow10(nf))
        ELSE Invalid

\* Decimal(str(value)) for a modelled value
ToDecimal(value) ==
    CASE value.k = "num" -> value
      [] value.k = "int" -> Num(value.n, 1)
      [] value.k = "str" -> PyDecimal(value.s)
      [] OTHER -> Invalid

(***************************************************************************)
(* textract_enhancer.py: the per-item steps.  A step returns               *)
(* [raised, item]: raised = TRUE when the Python code raises out of the    *)
(* step, item the dict as the step left it.                                *)
(***************************************************************************)
Ok(item) == [raised |-> FALSE, item |-> item]

Raise(item) == [raised |-> TRUE, item |-> item]

PCS == <<"P", "C", "S">>

\* A conversion table without the plural of PAR.
UnitMultiplierNoPlural(unit) ==
    CASE unit = <<"D", "O", "C">> -> 12
      [] unit = <<"D", "O", "C", "E", "N", "A">> -> 12
      [] unit = <<"P", "A", "R">> -> 2
      [] unit = <<"G", "R", "S">> -> 144
      [] unit = <<"G", "R", "U", "E", "S", "A">> -> 144
      [] OTHER -> 1

\* self.unit_conversions.get(unit, 1)
UnitMultiplier(unit) ==
    CASE unit = <<"D", "O", "C">> -> 12
      [] unit = <<"D", "O", "C", "E", "N", "A">> -> 12
      [] unit = <<"P", "A", "R">> -> 2
      [] unit = <<"P", "A", "R", "E", "S">> -> 2
      [] unit = <<"G", "R", "S">> -> 144
      [] unit = <<"G", "R", "U", "E", "S", "A">> -> 144
      [] OTHER -> 1

\* The patterns without the "+" after the separator class: one separator.
MatchItemRefOneSeparator(code, separators) ==
    LET nd == PrefixLen(code, DigitChars)
        afterDigits == Drop(code, nd)
    IN  IF nd >= 1 /\ Len(afterDigits) >= 2 /\ afterDigits[1] \in separators
        THEN [matched |-> TRUE, number |-> DigitsToInt(SubSeq(code, 1, nd)),
              ref |-> Tail(afterDigits)]
        ELSE [matched |-> FALSE, number |-> 0, ref |-> <<>>]

\* re.match(r'^(\d+)SEP+(.+)$', code): the leading number and the rest.  The
\* separator run is greedy and gives back its last character when nothing
\* would be left for (.+).
MatchItemRef(code, separators) ==
    LET nd == PrefixLen(code, DigitChars)
        afterDigits == Drop(code, nd)
        ns == PrefixLen(afterDigits, separators)
        rest == Drop(afterDigits, ns)
        number == DigitsToInt(SubSeq(code, 1, nd))
    IN  IF nd >= 1 /\ ns >= 1 /\ rest # <<>>
        THEN [matched |-> TRUE, number |-> number, ref |-> rest]
        ELSE IF nd >= 1 /\ ns >= 2 /\ rest = <<>>
        THEN [matched |-> TRUE, number |-> number, ref |-> <<afterDigits[ns]>>]
        ELSE [matched |-> FALSE, number |-> 0, ref |-> <<>>]

\* [\.\)\s]
AltSeparators == {".", ")"} \cup SpaceChars

Separated(item, number, ref, tag) ==
    Put(Put(Put(item, "item_number", IntV(number)),
            "product_code", Str(ref)),
        "_enhancement_applied", Str(<<tag>>))

_separate_item_and_ref(item, line_number) ==
    LET raw == Get(item, "product_code", Str(<<>>))
    IN  IF raw.k # "str" THEN Raise(item)   \* .strip() on None or a number
        ELSE
        LET product_code == Strip(raw.s)
            match1 == MatchItemRef(product_code, SpaceChars)
            match2 == MatchItemRef(product_code, AltSeparators)
        IN  IF product_code = <<>> THEN Ok(item)
            ELSE IF match1.matched /\ match1.number = line_number
            THEN Ok(Separated(item, match1.number, match1.ref, "item_ref_separated"))
            ELSE IF match2.matched /\ match2.number = line_number
            THEN Ok(Separated(item, match2.number, match2.ref, "item_ref_separated_alt"))
            ELSE IF ~Has(item, "item_number")
            THEN Ok(Put(item, "item_number", IntV(line_number)))
            ELSE Ok(item)

\* The unit written back by a conversion that forgets to canonicalise it.
KeepUnitMeasure(unit) == unit

\* item['unit_measure'] = 'PCS'
ConvertedUnitMeasure(unit) == PCS

\* the body of "if multiplier != 1:" with its try/except
ConvertWithMultiplier(item, quantity, unit, multiplier) ==
    LET original_qty == ToDecimal(quantity)
        updated ==
            Put(Put(Put(Put(item,
                "quantity", NumMul(original_qty, Num(multiplier, 1))),
                "unit_measure", Str(ConvertedUnitMeasure(unit))),
                "unit_multiplier", IntV(multiplier)),
                "_enhancement_applied",
                    Str(<<"unit_converted_">> \o unit \o <<"_to_PCS">>))
        unit_price == Get(updated, "unit_price", NoneV)
    IN  IF original_qty = Invalid
        THEN Put(item, "unit_multiplier", IntV(1))
        ELSE IF ~Truthy(unit_price) THEN updated
        ELSE IF ToDecimal(unit_price) = Invalid
        THEN Put(updated, "unit_multiplier", IntV(1))
        ELSE Put(updated, "unit_price", NumDivInt(ToDecimal(unit_price), multiplier))

_convert_units_to_pieces(item) ==
    LET quantity == Get(item, "quantity", NoneV)
        rawUnit == Get(item, "unit_measure", Str(<<>>))
    IN  IF rawUnit.k # "str" THEN Raise(item)   \* .strip() on None or a number
        ELSE
        LET unit == Upper(Strip(rawUnit.s))
            stored == Put(Put(item, "original_quantity", quantity),
                          "original_unit", Str(unit))
            multiplier == UnitMultiplier(unit)
        IN  IF ~Truthy(quantity) \/ unit = <<>> THEN Ok(item)
            ELSE IF multiplier # 1
            THEN Ok(ConvertWithMultiplier(stored, quantity, unit, multiplier))
            ELSE Ok(Put(stored, "unit_multiplier", IntV(1)))

\* the alternatives of ^(REF|CODIGO|COD|ITEM|#), in the order the regex tries them
CodePrefixes ==
    << <<"R", "E", "F">>, <<"C", "O", "D", "I", "G", "O">>, <<"C", "O", "D">>,
       <<"I", "T", "E", "M">>, <<"#">> >>

\* re.sub(r'^(REF|CODIGO|COD|ITEM|#)\s*:?\s*', '', code, flags=re.IGNORECASE)
StripCodePrefix(code) ==
    LET hits == {i \in DOMAIN CodePrefixes : StartsWithNoCase(code, CodePrefixes[i])}
    IN  IF hits = {} THEN code
        ELSE
        LET first == CHOOSE i \in hits : \A j \in hits : i <= j
            a == Drop(code, Len(CodePrefixes[first]))
            b == Drop(a, PrefixLen(a, SpaceChars))
            c == IF b # <<>> /\ Head(b) = ":" THEN Tail(b) ELSE b
        IN  Drop(c, PrefixLen(c, SpaceChars))

\* [\w\s\(\)\-\.]
IsDescriptionChar(c) == IsWordChar(c) \/ IsSpace(c) \/ c \in {"(", ")", "-", "."}

IsNotCurrencyOrSpace(c) == c # "$" /\ ~IsSpace(c)

IsNotDot(c) == c # "."

LastIndexOf(str, c) ==
    LET at == {i \in DOMAIN str : str[i] = c}
    IN  CHOOSE i \in at : \A j \in at : i >= j

\* the Colombian number format handling of _clean_decimal_field
NormaliseSeparators(cleaned) ==
    IF Count(cleaned, ",") > 0 /\ Count(cleaned, ".") > 0
    THEN LET noDots == SelectSeq(cleaned, IsNotDot)
         IN  [i \in DOMAIN noDots |-> IF noDots[i] = "," THEN "." ELSE noDots[i]]
    ELSE IF Count(cleaned, ".") > 1
    THEN LET cut == LastIndexOf(cleaned, ".")
             last == Drop(cleaned, cut)
             front == SelectSeq(SubSeq(cleaned, 1, cut - 1), IsNotDot)
         IN  IF Len(last) = 2 THEN front \o <<".">> \o last ELSE front \o last
    ELSE cleaned

_clean_decimal_field(value) ==
    CASE value.k = "none" -> NoneV
      [] value.k = "num" -> value     \* Decimal(str(Decimal)) is the same number
      [] value.k = "int" -> Num(value.n, 1)
      [] value.k = "str" ->
            LET cleaned == SelectSeq(Strip(value.s), IsNotCurrencyOrSpace)
                parsed == PyDecimal(NormaliseSeparators(cleaned))
            IN  IF parsed = Invalid THEN NoneV ELSE parsed
      [] OTHER -> NoneV

CleanNumericField(item, field) ==
    IF Has(item, field) THEN Put(item, field, _clean_decimal_field(item[field]))
    ELSE item

_clean_line_item_fields(item) ==
    LET code == Get(item, "product_code", NoneV)
        a == IF Truthy(code)
             THEN Put(item, "product_code",
                      Str(StripCodePrefix(CollapseWs(Strip(code.s)))))
             ELSE item
        desc == Get(a, "description", NoneV)
        b == IF Truthy(desc)
             THEN Put(a, "description",
                      Str(SelectSeq(CollapseWs(Strip(desc.s)), IsDescriptionChar)))
             ELSE a
    IN  CleanNumericField(
            CleanNumericField(CleanNumericField(b, "quantity"), "unit_price"),
            "subtotal")

\* A tolerance test that takes the 5% of the calculated value instead.
DiffersMoreThan5PctOfCalculated(calculated, current) ==
    100 * Abs(calculated.n * current.d - current.n * calculated.d)
        > 5 * current.d * Abs(calculated.n)

\* difference_pct > 5, with difference_pct =
\* abs((calculated - current) / current) * 100
DiffersMoreThan5Pct(calculated, current) ==
    100 * Abs(calculated.n * current.d - current.n * calculated.d)
        > 5 * calculated.d * Abs(current.n)

_recalculate_subtotal(item) ==
    LET quantity == Get(item, "quantity", NoneV)
        unit_price == Get(item, "unit_price", NoneV)
        q == ToDecimal(quantity)
        p == ToDecimal(unit_price)
        calculated_subtotal == NumMul(q, p)
        current_subtotal == Get(item, "subtotal", NoneV)
        current == ToDecimal(current_subtotal)
    IN  IF ~(Truthy(quantity) /\ Truthy(unit_price)) THEN item
        ELSE IF q = Invalid \/ p = Invalid THEN item          \* except: logged
        ELSE IF ~Truthy(current_subtotal)
        THEN Put(Put(item, "subtotal", calculated_subtotal),
                 "_subtotal_calculated", TrueV)
        ELSE IF current = Invalid THEN item                   \* except: logged
        ELSE IF DiffersMoreThan5Pct(calculated_subtotal, current)
        THEN Put(Put(item, "subtotal", calculated_subtotal),
                 "_subtotal_recalculated", TrueV)
        ELSE item

(***************************************************************************)
(* textract_enhancer.py: the loop over the line items and the invoice.     *)
(***************************************************************************)
\* steps 3 and 4, reached when step 2 returned
CleanAndRecalculate(converted) ==
    IF converted.raised THEN converted
    ELSE Ok(_recalculate_subtotal(_clean_line_item_fields(converted.item)))

\* step 2, reached when step 1 returned
ConvertAndClean(separated) ==
    IF separated.raised THEN separated
    ELSE CleanAndRecalculate(_convert_units_to_pieces(separated.item))

\* steps 1-4 of the loop body, on the copy of the item
EnhanceSteps(item, line_number) ==
    ConvertAndClean(_separate_item_and_ref(item, line_number))

\* except Exception: enhanced_items.append(item)
KeepOriginalOnError(item, outcome) ==
    IF outcome.raised THEN Ok(item) ELSE Ok(outcome.item)

\* An except branch that appends the half-enhanced copy instead of the item.
TryEnhanceKeepPartial(item, line_number) ==
    Ok(EnhanceSteps(item, line_number).item)

\* the try/except of the loop body: the element appended to enhanced_items
TryEnhanceItem(item, line_number) ==
    KeepOriginalOnError(item, EnhanceSteps(item, line_number))

\* for i, item in enumerate(line_items): ... enhanced_items.append(...)
RECURSIVE EnhanceLoop(_, _, _)
RECURSIVE AppendAndContinue(_, _, _, _)
AppendAndContinue(line_items, i, enhanced_items, step) ==
    IF step.raised THEN [raised |-> TRUE, items |-> enhanced_items]
    ELSE EnhanceLoop(line_items, i + 1, Append(enhanced_items, step.item))

EnhanceLoop(line_items, i, enhanced_items) ==
    IF i > Len(line_items) THEN [raised |-> FALSE, items |-> enhanced_items]
    ELSE AppendAndContinue(line_items, i, enhanced_items,
                           TryEnhanceItem(line_items[i], i))

_enhance_line_items(line_items) == EnhanceLoop(line_items, 1, <<>>)

\* [\w\s\-\.\(\)\,\:]
IsTextChar(c) ==
    IsWordChar(c) \/ IsSpace(c) \/ c \in {"-", ".", "(", ")", ",", ":"}

_clean_text_string(text) ==
    IF ~Truthy(text) THEN text
    ELSE Str(SelectSeq(CollapseWs(Strip(text.s)), IsTextChar))

\* for field in fields: if field in block and block[field]: block[field] = ...
CleanBlock(block, fields) ==
    [f \in DOMAIN block |->
        IF f \in fields /\ Truthy(block[f]) THEN _clean_text_string(block[f])
        ELSE block[f]]

SupplierFields == {"company_name", "nit", "address", "city"}

CustomerFields == {"customer_name", "customer_id", "address", "city"}

_clean_text_fields(data) ==
    [key \in DOMAIN data |->
        CASE key = "supplier" -> CleanBlock(data[key], SupplierFields)
          [] key = "customer" -> CleanBlock(data[key], CustomerFields)
          [] key = "invoice_number" /\ Truthy(data[key]) ->
                _clean_text_string(data[key])
          [] OTHER -> data[key]]

Warning(line, kind) == [line |-> line, kind |-> kind]

\* "value <= 0" raises TypeError when value is a str
ComparisonRaises(value) == Truthy(value) /\ value.k = "str"

\* a threshold of one unit instead of zero
NotAboveOne(value) == ~Truthy(value) \/ value.n <= value.d

NotPositive(value) == ~Truthy(value) \/ value.n <= 0

\* the warnings of one line item, in the order they are appended
ItemWarnings(item, i) ==
    (IF ~Truthy(Get(item, "description", NoneV))
        THEN <<Warning(i, "descripcion faltante")>> ELSE <<>>)
    \o (IF NotPositive(Get(item, "quantity", NoneV))
        THEN <<Warning(i, "cantidad invalida")>> ELSE <<>>)
    \o (IF NotPositive(Get(item, "unit_price", NoneV))
        THEN <<Warning(i, "precio unitario invalido")>> ELSE <<>>)
    \o (IF Get(item, "unit_multiplier", IntV(1)).n > 100
        THEN <<Warning(i, "conversion de unidades muy alta")>> ELSE <<>>)
    \o (IF Truthy(Get(item, "_subtotal_recalculated", NoneV))
        THEN <<Warning(i, "subtotal recalculado")>> ELSE <<>>)

ItemValidationRaises(item) ==
    \/ ComparisonRaises(Get(item, "quantity", NoneV))
    \/ ComparisonRaises(Get(item, "unit_price", NoneV))

RECURSIVE AllItemWarnings(_, _)
AllItemWarnings(line_items, i) ==
    IF i > Len(line_items) THEN <<>>
    ELSE ItemWarnings(line_items[i], i) \o AllItemWarnings(line_items, i + 1)

\* if data.get('totals'): ... totals.get('total') and totals.get('total') <= 0
TotalsWarnings(data) ==
    LET totals == Get(data, "totals", <<>>)
        total == Get(totals, "total", NoneV)
    IN  IF DOMAIN totals # {} /\ Truthy(total) /\ total.n <= 0
        THEN <<Warning(0, "total invalido")>> ELSE <<>>

TotalsValidationRaises(data) ==
    LET totals == Get(data, "totals", <<>>)
    IN  DOMAIN totals # {} /\ ComparisonRaises(Get(totals, "total", NoneV))

\* [raised, warnings]
_validate_enhanced_data(data) ==
    LET line_items == Get(data, "line_items", <<>>)
    IN  IF \/ \E i \in DOMAIN line_items : ItemValidationRaises(line_items[i])
           \/ TotalsValidationRaises(data)
        THEN [raised |-> TRUE, warnings |-> <<>>]
        ELSE [raised |-> FALSE,
              warnings |-> AllItemWarnings(line_items, 1) \o TotalsWarnings(data)]

\* The supplier and customer dicts are shared between raw_data and its
\* shallow copy: what _clean_text_fields writes to them is seen through both.
SharedBlocks(raw, cleaned) ==
    [key \in DOMAIN raw |->
        IF key \in {"supplier", "customer"} THEN cleaned[key] ELSE raw[key]]

\* [raised, data, raw]: the returned dict and raw_data as the call leaves it
\* enhanced_data['enhancement_warnings'] = warnings; return enhanced_data
AttachWarnings(raw, cleaned, validation) ==
    IF validation.raised
    THEN [raised |-> TRUE, data |-> <<>>, raw |-> SharedBlocks(raw, cleaned)]
    ELSE [raised |-> FALSE,
          data |-> Put(cleaned, "enhancement_warnings", validation.warnings),
          raw |-> SharedBlocks(raw, cleaned)]

\* 3. validate data consistency
ValidateCleaned(raw, cleaned) ==
    AttachWarnings(raw, cleaned, _validate_enhanced_data(cleaned))

\* 2. clean text fields, with enhanced_data['line_items'] replaced
CleanEnhanced(raw, items) ==
    IF items.raised THEN [raised |-> TRUE, data |-> <<>>, raw |-> raw]
    ELSE ValidateCleaned(raw,
            _clean_text_fields(IF Has(raw, "line_items")
                               THEN Put(raw, "line_items", items.items)
                               ELSE raw))

enhance_extracted_data(raw) ==
    CleanEnhanced(raw, IF Has(raw, "line_items")
                       THEN _enhance_line_items(raw["line_items"])
                       ELSE [raised |-> FALSE, items |-> <<>>])

(***************************************************************************)
(* Python numbers of the pricing code: a value carries its type, because   *)
(* Decimal and float do not mix in arithmetic.  A float is kept as the     *)
(* exact fraction it stands for; [t |-> "error"] is a raised exception.    *)
(***************************************************************************)
Typed(type, n, d) ==
    LET g == Gcd(Abs(n), d)
    IN  [t |-> type, n |-> n \div g, d |-> d \div g]

PyInt(n) == Typed("int", n, 1)

PyFloat(n, d) == Typed("float", n, d)

Dec(n, d) == Typed("Decimal", n, d)

PyNone == [t |-> "None", n |-> 0, d |-> 1]

PyError == [t |-> "error", n |-> 0, d |-> 1]

IsError(v) == v.t = "error"

IsNumeric(v) == v.t \in {"int", "float", "Decimal"}

\* TypeError: unsupported operand type(s)
Unsupported(a, b) ==
    \/ ~IsNumeric(a) \/ ~IsNumeric(b)
    \/ {a.t, b.t} = {"Decimal", "float"}

ResultType(a, b) ==
    IF "float" \in {a.t, b.t} THEN "float"
    ELSE IF "Decimal" \in {a.t, b.t} THEN "Decimal"
    ELSE "int"

PyMul(a, b) ==
    IF Unsupported(a, b) THEN PyError
    ELSE Typed(ResultType(a, b), a.n * b.n, a.d * b.d)

PySub(a, b) ==
    IF Unsupported(a, b) THEN PyError
    ELSE Typed(ResultType(a, b), a.n * b.d - b.n * a.d, a.d * b.d)

\* a / b: ZeroDivisionError for b = 0, int / int is a float
PyDiv(a, b) ==
    IF Unsupported(a, b) \/ b.n = 0 THEN PyError
    ELSE Typed(IF ResultType(a, b) = "int" THEN "float" ELSE ResultType(a, b),
               (IF b.n < 0 THEN -1 ELSE 1) * a.n * b.d, a.d * Abs(b.n))

\* a < b for two numbers (Decimal and float do compare)
Less(a, b) == a.n * b.d < b.n * a.d

PyMax(a, b) == IF Less(a, b) THEN b ELSE a

PyMin(a, b) == IF Less(b, a) THEN b ELSE a

\* 1 + margin / 100 for a float margin
MarkupFactor(margin) == PyFloat(100 * margin.d + margin.n, 100 * margin.d)

(***************************************************************************)
(* category_classifier.py: what classify_product returns.  The zero-shot   *)
(* model and the keyword search are outside the model: the request names   *)
(* the row of the table the description falls in.                          *)
(***************************************************************************)
\* self.category_margins, in percent
CategoryMargin(category) ==
    CASE category = "shoes" -> 55
      [] category = "clothing" -> 60
      [] category = "electronics" -> 35
      [] category = "accessories" -> 70
      [] category = "sports" -> 50
      [] category = "home" -> 45
      [] category = "beauty" -> 65
      [] category = "toys" -> 60
      [] category = "tools" -> 40
      [] category = "office" -> 45
      [] OTHER -> 50

\* keyword_categories[category]['confidence'], in hundredths
KeywordConfidence(category) ==
    CASE category = "shoes" -> 90
      [] category = "clothing" -> 85
      [] category = "electronics" -> 95
      [] category = "sports" -> 88
      [] category = "beauty" -> 92
      [] category = "accessories" -> 87
      [] category = "home" -> 80
      [] OTHER -> 60

KeywordCategories ==
    {"shoes", "clothing", "electronics", "sports", "beauty", "accessories",
     "home", "general"}

ZeroShotCategories == KeywordCategories \cup {"toys", "tools", "office"}

Classification(category, confidence, method) ==
    [category |-> category, confidence |-> confidence,
     margin_percentage |-> PyFloat(CategoryMargin(category), 1),
     method |-> method]

_fallback_classify(category) ==
    Classification(category, KeywordConfidence(category), "keyword_fallback")

_ml_classify(category, confidence) ==
    Classification(category, confidence, "ml_zero_shot")

_get_default_classification == Classification("general", 50, "default")

Unclassified == Classification("error", 0, "error")

\* classify_product(description): description is None, a blank string, a
\* text, or something that is not a string
classify_product(description, found) ==
    CASE description = "None" -> _get_default_classification
      [] description = "blank" -> _get_default_classification
      [] description = "text" -> found
      [] OTHER -> Unclassified        \* AttributeError: no .strip()

\* description[:50] in the log line
DescriptionLogged(description) == description \in {"blank", "text"}

(***************************************************************************)
(* pricing_engine.py: the candidates.                                      *)
(***************************************************************************)
\* _get_quantity_factor: float(quantity) raises for None
_get_quantity_factor(quantity) ==
    IF ~IsNumeric(quantity) THEN PyError
    ELSE IF quantity.n >= 50 * quantity.d THEN PyFloat(95, 100)
    ELSE IF quantity.n >= 20 * quantity.d THEN PyFloat(98, 100)
    ELSE IF quantity.n <= 3 * quantity.d THEN PyFloat(105, 100)
    ELSE PyFloat(1, 1)

\* round_price_colombian(price) as a Decimal
RoundedPrice(price_raw) ==
    IF ~IsNumeric(price_raw) THEN PyError
    ELSE Dec(round_price_colombian(price_raw.n, price_raw.d), 1)

\* margin.quantize(Decimal('0.01')) for the Decimal margin
Quantize(margin) ==
    IF IsError(margin) THEN PyError
    ELSE Dec(RoundHalfEven(100 * margin.n, margin.d), 100)

Hundred == PyInt(100)

\* calculate_rounded_margin(cost_price, sale_price)
calculate_rounded_margin(cost_price, sale_price) ==
    IF ~IsNumeric(cost_price) \/ IsError(sale_price) THEN PyError
    ELSE IF cost_price.n <= 0 THEN Dec(0, 1)
    ELSE Quantize(PyMul(PyDiv(PySub(sale_price, cost_price), cost_price), Hundred))

\* one entry of recommendations
Recommendation(method, confidence, sale_price, margin) ==
    [method |-> method, confidence |-> confidence, price |-> sale_price,
     margin |-> margin, adjusted |-> FALSE]

RecommendationAt(method, confidence, cost_price, sale_price) ==
    Recommendation(method, confidence, sale_price,
                   calculate_rounded_margin(cost_price, sale_price))

\* cost_price * (1 + margin / 100) * quantity_factor, rounded, with its margin
MarginRecommendation(method, confidence, cost_price, margin, quantity_factor) ==
    RecommendationAt(method, confidence, cost_price,
        RoundedPrice(PyMul(PyMul(cost_price, MarkupFactor(margin)), quantity_factor)))

min_markup == PyFloat(20, 1)

max_markup == PyFloat(200, 1)

\* a conservative margin that adds to the category margin instead of
\* discounting it
ConservativeAbove(category_margin) ==
    PyMax(PyMul(category_margin, PyFloat(18, 10)), min_markup)

\* max(category_margin * 0.8, self.min_markup)
ConservativeMargin(category_margin) ==
    PyMax(PyMul(category_margin, PyFloat(8, 10)), min_markup)

\* min(category_margin * 1.3, self.max_markup)
AggressiveMargin(category_margin) ==
    PyMin(PyMul(category_margin, PyFloat(13, 10)), max_markup)

(***************************************************************************)
(* pricing_engine.py: historical data.  A record of historical_data is     *)
(* [product_code, sale_price, cost_price, supplier, recent]; recent says   *)
(* whether its date is within the last 90 days.                            *)
(***************************************************************************)
\* "not x" for a string argument that may be None or empty
Missing(text) == text \in {"None", ""}

\* item.get(key) and item.get(key) > 0
Positive(value) == IsNumeric(value) /\ value.n > 0

\* str.lower() on the supplier names of the model
Lower(name) == IF name = "ACME" THEN "acme" ELSE name

\* sorted(values)
RECURSIVE InsertAscending(_, _)
InsertAscending(sorted, value) ==
    IF sorted = <<>> THEN <<value>>
    ELSE IF Less(value, Head(sorted)) THEN <<value>> \o sorted
    ELSE <<Head(sorted)>> \o InsertAscending(Tail(sorted), value)

RECURSIVE SortAscending(_)
SortAscending(values) ==
    IF values = <<>> THEN <<>>
    ELSE InsertAscending(SortAscending(SubSeq(values, 1, Len(values) - 1)),
                         values[Len(values)])

Sum(a, b) == Typed(ResultType(a, b), a.n * b.d + b.n * a.d, a.d * b.d)

MiddleOf(sorted) ==
    IF Len(sorted) % 2 = 1 THEN sorted[(Len(sorted) + 1) \div 2]
    ELSE PyDiv(Sum(sorted[Len(sorted) \div 2], sorted[Len(sorted) \div 2 + 1]),
               PyInt(2))

\* statistics.median(values) for a non-empty list
Median(values) == MiddleOf(SortAscending(values))

IsProductSale(item, product_code) ==
    item.product_code = product_code /\ Positive(item.sale_price)

IsRecent(item) == item.recent

IsOlder(item) == ~item.recent

SalePrice(item) == Dec(item.sale_price.n, item.sale_price.d)

PricesOf(items) == [i \in DOMAIN items |-> SalePrice(items[i])]

\* the median of the recent prices, else of the older ones
MedianPreferRecent(product_history) ==
    IF Len(product_history) < 2 THEN PyNone
    ELSE IF SelectSeq(product_history, IsRecent) # <<>>
    THEN Median(PricesOf(SelectSeq(product_history, IsRecent)))
    ELSE Median(PricesOf(SelectSeq(product_history, IsOlder)))

_get_historical_price(product_code, historical_data) ==
    IF Missing(product_code) THEN PyNone
    ELSE LET Matches(item) == IsProductSale(item, product_code)
         IN  MedianPreferRecent(SelectSeq(historical_data, Matches))

\* ((sale - cost) / cost) * 100 as a float
SupplierItemMargin(item) ==
    PyFloat(100 * (item.sale_price.n * item.cost_price.d
                    - item.cost_price.n * item.sale_price.d),
            item.cost_price.n * item.sale_price.d)

\* self.min_markup <= margin <= self.max_markup
RealisticMargin(margin) == ~Less(margin, min_markup) /\ ~Less(max_markup, margin)

MarginsOf(items) == [i \in DOMAIN items |-> SupplierItemMargin(items[i])]

MedianOfRealistic(margins) ==
    IF Len(margins) >= 2 THEN Median(margins) ELSE PyNone

SupplierMedian(supplier_items) ==
    IF Len(supplier_items) < 3 THEN PyNone
    ELSE MedianOfRealistic(SelectSeq(MarginsOf(supplier_items), RealisticMargin))

_get_supplier_margin(supplier, historical_data) ==
    IF Missing(supplier) THEN PyNone
    ELSE IF \E i \in DOMAIN historical_data : historical_data[i].supplier = "None"
    THEN PyError                       \* None.lower()
    ELSE LET Matches(item) ==
                 /\ Lower(item.supplier) = Lower(supplier)
                 /\ Positive(item.sale_price) /\ Positive(item.cost_price)
         IN  SupplierMedian(SelectSeq(historical_data, Matches))

(***************************************************************************)
(* pricing_engine.py: validation and selection.                            *)
(***************************************************************************)
\* rec['price'] = cost_price * (1 + markup / 100); rec['margin'] = markup
Adjusted(rec, cost_price, markup) ==
    [rec EXCEPT !.price = PyMul(cost_price, MarkupFactor(markup)),
                !.margin = markup, !.adjusted = TRUE]

\* the body of the loop of _validate_recommendations, margin already computed
Clamp(rec, cost_price, margin) ==
    IF IsError(margin) THEN [rec EXCEPT !.price = PyError]
    ELSE IF Less(margin, min_markup) THEN Adjusted(rec, cost_price, min_markup)
    ELSE IF Less(max_markup, margin) THEN Adjusted(rec, cost_price, max_markup)
    ELSE rec

ValidateOne(rec, cost_price) ==
    Clamp(rec, cost_price,
          PyMul(PyDiv(PySub(rec.price, cost_price), cost_price), Hundred))

_validate_recommendations(recommendations, cost_price) ==
    [i \in DOMAIN recommendations |-> ValidateOne(recommendations[i], cost_price)]

\* margin_score, in tenths
MarginScore(margin) ==
    IF ~Less(margin, PyInt(30)) /\ ~Less(PyInt(80), margin) THEN 12
    ELSE IF Less(margin, PyInt(30)) THEN 8
    ELSE IF Less(PyInt(100), margin) THEN 7
    ELSE 10

\* The sign of the rounding error of the IEEE-754 product confidence *
\* margin_score where another pair of the model has the same exact product:
\* 0.9 * 0.8 is 0.7200000000000001, above 0.6 * 1.2 = 0.72.
FloatExcess(confidence, margin_score) ==
    IF confidence = 90 /\ margin_score = 8 THEN 1 ELSE 0

\* recommendation_score(rec), scaled so that float order is integer order
recommendation_score(rec) ==
    2 * rec.confidence * MarginScore(rec.margin)
        + FloatExcess(rec.confidence, MarginScore(rec.margin))

\* A sort that puts the lowest score first.
InLowestFirst(rec, before) ==
    recommendation_score(rec) < recommendation_score(before)

\* list.sort(key=recommendation_score, reverse=True) is stable: rec goes
\* before the entries it beats, behind the ones it ties with
GoesBefore(rec, before) ==
    recommendation_score(rec) > recommendation_score(before)

RECURSIVE InsertByScore(_, _)
InsertByScore(sorted, rec) ==
    IF sorted = <<>> THEN <<rec>>
    ELSE IF GoesBefore(rec, Head(sorted)) THEN <<rec>> \o sorted
    ELSE <<Head(sorted)>> \o InsertByScore(Tail(sorted), rec)

RECURSIVE SortByScore(_)
SortByScore(recommendations) ==
    IF recommendations = <<>> THEN <<>>
    ELSE InsertByScore(
            SortByScore(SubSeq(recommendations, 1, Len(recommendations) - 1)),
            recommendations[Len(recommendations)])

(***************************************************************************)
(* pricing_engine.py: recommend_sale_price and its fallback.  A request is *)
(* [product_code, description, found, cost_price, quantity,                *)
(* historical_data, supplier]; the outcome is the returned dict, or        *)
(* raised = TRUE when the call raises to its caller.                       *)
(***************************************************************************)
\* float(x)
ToFloat(value) == [value EXCEPT !.t = "float"]

Returned(method, confidence, best, quantity_factor, ranked) ==
    [raised |-> FALSE, method |-> method, confidence |-> confidence,
     recommended_price |-> ToFloat(best.price),
     margin_percentage |-> ToFloat(best.margin),
     quantity_factor |-> quantity_factor,
     all_recommendations |->
        [i \in DOMAIN ranked |->
            [ranked[i] EXCEPT !.price = ToFloat(ranked[i].price),
                              !.margin = ToFloat(ranked[i].margin)]]]

\* the call ends with an exception
RaisedOutcome ==
    [raised |-> TRUE, method |-> "", confidence |-> 0,
     recommended_price |-> PyError, margin_percentage |-> PyError,
     quantity_factor |-> PyError, all_recommendations |-> <<>>]

\* validate_price_business_rules(cost_price, sale_price) raises
BusinessRulesRaise(cost_price, sale_price) ==
    \/ IsError(calculate_rounded_margin(cost_price, sale_price))
    \/ ~Less(cost_price, sale_price) /\ IsError(PyMul(cost_price, Dec(12, 10)))

\* the dict built by _fallback_pricing, once price and margin are known
FallbackResult(cost_price, quantity, quantity_factor, fallback) ==
    IF \/ IsError(fallback.price) \/ IsError(fallback.margin)
       \/ IsError(PyMul(PySub(fallback.price, cost_price), quantity))
       \/ BusinessRulesRaise(cost_price, fallback.price)
    THEN RaisedOutcome
    ELSE Returned("fallback", 50, fallback, quantity_factor, <<>>)

FallbackWithFactor(cost_price, quantity, quantity_factor) ==
    FallbackResult(cost_price, quantity, quantity_factor,
        MarginRecommendation("fallback", 50, cost_price, PyFloat(50, 1),
                             quantity_factor))

_fallback_pricing(cost_price, quantity) ==
    FallbackWithFactor(cost_price, quantity, _get_quantity_factor(quantity))

\* recommendations, in the order the try block appends them
Recommendations(cost_price, category_info, historical_price, supplier_margin, quantity_factor) ==
    <<MarginRecommendation("ml_category", category_info.confidence, cost_price,
                           category_info.margin_percentage, quantity_factor)>>
    \o (IF IsNumeric(historical_price) /\ historical_price.n # 0
        THEN <<RecommendationAt("historical", 95, cost_price,
                   RoundedPrice(PyMul(historical_price, quantity_factor)))>>
        ELSE <<>>)
    \o (IF IsNumeric(supplier_margin) /\ supplier_margin.n # 0
        THEN <<MarginRecommendation("supplier_pattern", 85, cost_price,
                                    supplier_margin, quantity_factor)>>
        ELSE <<>>)
    \o <<MarginRecommendation("conservative", 70, cost_price,
            ConservativeMargin(category_info.margin_percentage), quantity_factor)>>
    \o <<MarginRecommendation("aggressive", 60, cost_price,
            AggressiveMargin(category_info.margin_percentage), quantity_factor)>>

AnyFailed(recommendations) ==
    \E i \in DOMAIN recommendations :
        IsError(recommendations[i].price) \/ IsError(recommendations[i].margin)

\* profit_per_unit, total_profit, roi_percentage and the returned dict
WithMetrics(req, quantity_factor, ranked) ==
    IF \/ IsError(PyMul(PySub(ranked[1].price, req.cost_price), req.quantity))
       \/ IsError(PyDiv(PySub(ranked[1].price, req.cost_price), req.cost_price))
    THEN RaisedOutcome
    ELSE Returned(ranked[1].method, ranked[1].confidence, ranked[1],
                  quantity_factor, ranked)

\* best_rec = self._select_best_recommendation(recommendations)
SelectBest(req, quantity_factor, validated) ==
    IF AnyFailed(validated) THEN RaisedOutcome
    ELSE WithMetrics(req, quantity_factor, SortByScore(validated))

\* steps 5 and 6 of the try block, the lookups done
Generate(req, category_info, historical_price, supplier_margin, quantity_factor) ==
    IF \/ category_info.method = "error"
       \/ ~DescriptionLogged(req.description)
       \/ IsError(supplier_margin)
       \/ IsError(quantity_factor)
    THEN RaisedOutcome
    ELSE SelectBest(req, quantity_factor,
            _validate_recommendations(
                Recommendations(req.cost_price, category_info, historical_price,
                                supplier_margin, quantity_factor),
                req.cost_price))

\* the try block: RaisedOutcome stands for an exception inside it
TryRecommend(req) ==
    Generate(req,
             classify_product(req.description, req.found),
             _get_historical_price(req.product_code, req.historical_data),
             _get_supplier_margin(req.supplier, req.historical_data),
             _get_quantity_factor(req.quantity))

\* except Exception: return self._fallback_pricing(cost_price, quantity)
OrFallback(req, attempt) ==
    IF attempt.raised THEN _fallback_pricing(req.cost_price, req.quantity)
    ELSE attempt

recommend_sale_price(req) == OrFallback(req, TryRecommend(req))

(***************************************************************************)
(* textract_service.py: TextractService.  Texts are strings as sequences   *)
(* of one-character strings; a parsed number is a value [k, n, d, s].      *)
(***************************************************************************)
\* re.sub(r'[,.](?=\d{3})', '', cleaned)
RECURSIVE DropThousandsSeparators(_)
DropThousandsSeparators(cleaned) ==
    IF cleaned = <<>> THEN <<>>
    ELSE IF Head(cleaned) \in {",", "."} /\ PrefixLen(Tail(cleaned), DigitChars) >= 3
         THEN DropThousandsSeparators(Tail(cleaned))
         ELSE <<Head(cleaned)>> \o DropThousandsSeparators(Tail(cleaned))

\* cleaned.replace(',', '.')
CommaToDot(cleaned) == [i \in DOMAIN cleaned |-> IF cleaned[i] = "," THEN "." ELSE cleaned[i]]

\* value is a str; None stands for "not a number"
\* except Exception: return None
NoneIfInvalid(parsed) == IF parsed = Invalid THEN NoneV ELSE parsed

_parse_decimal(value) ==
    IF value = <<>> THEN NoneV
    ELSE NoneIfInvalid(PyDecimal(CommaToDot(DropThousandsSeparators(
                                    SelectSeq(value, IsNotCurrencyOrSpace)))))

(***************************************************************************)
(* The block graph reader.  A block is a record [Id, BlockType, Text,      *)
(* RowIndex, ColumnIndex, EntityTypes, Relationships]; a key the block     *)
(* lacks holds the default its .get() gives ('' , 0, []).  A relationship  *)
(* is [Type, Ids].                                                         *)
(***************************************************************************)
\* sep.join(parts)
RECURSIVE Join(_, _)
Join(parts, sep) ==
    IF parts = <<>> THEN <<>>
    ELSE IF Len(parts) = 1 THEN parts[1]
    ELSE parts[1] \o sep \o Join(Tail(parts), sep)

\* str.lower()
LowerText(str) ==
    [i \in DOMAIN str |->
        IF str[i] \in Range(UpperLetters)
        THEN LowerLetters[CHOOSE k \in DOMAIN UpperLetters : UpperLetters[k] = str[i]]
        ELSE str[i]]

\* sorted(keys) for a set of integers
RECURSIVE Sorted(_)
Sorted(keys) ==
    IF keys = {} THEN <<>>
    ELSE LET least == CHOOSE x \in keys : \A y \in keys : x <= y
         IN  <<least>> \o Sorted(keys \ {least})

\* {block['Id']: block for block in blocks}: the last block of an Id stays
BlockMap(blocks) ==
    [id \in {blocks[i].Id : i \in DOMAIN blocks} |->
        blocks[CHOOSE i \in DOMAIN blocks :
                  blocks[i].Id = id /\ \A j \in DOMAIN blocks : blocks[j].Id = id => j <= i]]

\* an unresolved id handed on as a WORD without text
ResolveOrBlank(block_map, id) ==
    IF id \in DOMAIN block_map THEN <<block_map[id]>>
    ELSE <<[Id |-> id, BlockType |-> "WORD", Text |-> <<>>, RowIndex |-> 0,
            ColumnIndex |-> 0, EntityTypes |-> {}, Relationships |-> <<>>]>>

\* block_map.get(id): <<block>>, or <<>> for None
Resolve(block_map, id) ==
    IF id \in DOMAIN block_map THEN <<block_map[id]>> ELSE <<>>

\* the Ids of the relationships of one Type, in the order they are visited
RECURSIVE RelatedIds(_, _)
RelatedIds(relationships, type) ==
    IF relationships = <<>> THEN <<>>
    ELSE (IF Head(relationships).Type = type THEN Head(relationships).Ids ELSE <<>>)
            \o RelatedIds(Tail(relationships), type)

\* the resolved blocks of one BlockType among ids, in order
RECURSIVE ResolvedOfType(_, _, _)
ResolvedOfType(ids, block_map, type) ==
    IF ids = <<>> THEN <<>>
    ELSE LET found == Resolve(block_map, Head(ids))
         IN  (IF found # <<>> /\ found[1].BlockType = type THEN found ELSE <<>>)
                \o ResolvedOfType(Tail(ids), block_map, type)

_get_text_from_block(block, block_map) ==
    LET words == ResolvedOfType(RelatedIds(block.Relationships, "CHILD"), block_map, "WORD")
    IN  Join([i \in DOMAIN words |-> words[i].Text], <<" ">>)

IsTextLine(block) == block.BlockType = "LINE" /\ Strip(block.Text) # <<>>

_get_text_lines(blocks) ==
    LET kept == SelectSeq(blocks, IsTextLine)
    IN  [i \in DOMAIN kept |-> Strip(kept[i].Text)]

\* for value_id in value_ids: ... key_values[key_text.lower()] = value_text
RECURSIVE PairValues(_, _, _, _)
PairValues(key_values, key_text, value_ids, block_map) ==
    IF value_ids = <<>> THEN key_values
    ELSE LET found == Resolve(block_map, Head(value_ids))
             value_text == IF found = <<>> THEN <<>>
                           ELSE _get_text_from_block(found[1], block_map)
         IN  PairValues(IF key_text # <<>> /\ value_text # <<>>
                        THEN Put(key_values, LowerText(key_text), value_text)
                        ELSE key_values,
                        key_text, Tail(value_ids), block_map)

IsKey(block) == block.BlockType = "KEY_VALUE_SET" /\ "KEY" \in block.EntityTypes

RECURSIVE KeyValueLoop(_, _, _)
KeyValueLoop(blocks, block_map, key_values) ==
    IF blocks = <<>> THEN key_values
    ELSE KeyValueLoop(Tail(blocks), block_map,
            IF IsKey(Head(blocks))
            THEN PairValues(key_values, _get_text_from_block(Head(blocks), block_map),
                            RelatedIds(Head(blocks).Relationships, "VALUE"), block_map)
            ELSE key_values)

_extract_key_values(blocks) == KeyValueLoop(blocks, BlockMap(blocks), <<>>)

\* rows[row_index][col_index] = cell_text: the last cell of a position stays
CellText(cells, r, c, block_map) ==
    LET at == {i \in DOMAIN cells : cells[i].RowIndex = r /\ cells[i].ColumnIndex = c}
    IN  _get_text_from_block(cells[CHOOSE i \in at : \A j \in at : j <= i], block_map)

ColumnsOf(cells, r) == {cells[i].ColumnIndex : i \in {j \in DOMAIN cells : cells[j].RowIndex = r}}

\* [row[col_idx] for col_idx in sorted(row.keys())]
RowData(cells, r, block_map) ==
    LET cols == Sorted(ColumnsOf(cells, r))
    IN  [j \in DOMAIN cols |-> CellText(cells, r, cols[j], block_map)]

\* max(len(row) for row in table_rows) if table_rows else 0
ColCount(table_rows) ==
    IF table_rows = <<>> THEN 0
    ELSE LET lengths == {Len(table_rows[i]) : i \in DOMAIN table_rows}
         IN  CHOOSE n \in lengths : \A m \in lengths : m <= n

TableOf(table_rows) ==
    [rows |-> table_rows, row_count |-> Len(table_rows), col_count |-> ColCount(table_rows)]

_parse_table(table_block, block_map) ==
    LET cells == ResolvedOfType(RelatedIds(table_block.Relationships, "CHILD"),
                                block_map, "CELL")
        row_keys == Sorted({cells[i].RowIndex : i \in DOMAIN cells})
    IN  TableOf([i \in DOMAIN row_keys |-> RowData(cells, row_keys[i], block_map)])

IsTable(block) == block.BlockType = "TABLE"

\* "if table_data" holds of every table: the dict is never empty
_extract_tables(blocks) ==
    LET found == SelectSeq(blocks, IsTable)
    IN  [i \in DOMAIN found |-> _parse_table(found[i], BlockMap(blocks))]

(***************************************************************************)
(* The line-item interpreter.  A row is a sequence of cell texts; an item  *)
(* is a dict of values.  float() and Decimal() are modelled on texts       *)
(* without exponents, underscores and the words inf and nan.               *)
(***************************************************************************)
\* pattern in text
Contains(text, pattern) ==
    \E i \in 1..(Len(text) - Len(pattern) + 1) :
        SubSeq(text, i, i + Len(pattern) - 1) = pattern

AlnumChars == Range(Digits) \cup Range(LowerLetters) \cup Range(UpperLetters)

\* [A-Z0-9-] under re.IGNORECASE
CodeChars == AlnumChars \cup {"-"}

\* the least position of a set of positions
First(positions) == CHOOSE i \in positions : \A j \in positions : i <= j

\* re.search(r'\(X[4-9]\)', text_upper) or re.search(r'\(X1[0-2]\)', text_upper)
PackMarkers ==
    { <<"(", "X", "4", ")">>, <<"(", "X", "5", ")">>, <<"(", "X", "6", ")">>, <<"(", "X", "7", ")">>, <<"(", "X", "8", ")">>, <<"(", "X", "9", ")">>,
      <<"(", "X", "1", "0", ")">>, <<"(", "X", "1", "1", ")">>, <<"(", "X", "1", "2", ")">> }

\* unit_patterns, in the order of the dict
unit_patterns ==
    << [unit |-> <<"D", "O", "C">>, patterns |-> {<<"D", "O", "C", "E", "N", "A">>, <<"D", "O", "C">>, <<"D", "O", "Z", "E", "N">>, <<"(", "X", "1", "2", ")">>, <<"X", "1", "2">>}],
       [unit |-> <<"P", "A", "R">>, patterns |-> {<<"P", "A", "R">>, <<"P", "A", "R", "E", "S">>, <<"P", "A", "I", "R">>, <<"(", "X", "2", ")">>, <<"X", "2">>}],
       [unit |-> <<"G", "R", "S">>, patterns |-> {<<"G", "R", "U", "E", "S", "A">>, <<"G", "R", "S">>, <<"G", "R", "O", "S", "S">>, <<"(", "X", "1", "4", "4", ")">>, <<"X", "1", "4", "4">>}],
       [unit |-> <<"K", "G">>, patterns |-> {<<"K", "I", "L", "O", "G", "R", "A", "M", "O">>, <<"K", "G">>, <<"K", "I", "L", "O">>}],
       [unit |-> <<"G">>, patterns |-> {<<"G", "R", "A", "M", "O">>, <<"G", "R">>, <<"G">>}],
       [unit |-> <<"L">>, patterns |-> {<<"L", "I", "T", "R", "O">>, <<"L", "T">>, <<"L">>}],
       [unit |-> <<"M", "L">>, patterns |-> {<<"M", "I", "L", "I", "L", "I", "T", "R", "O">>, <<"M", "L">>}] >>

_detect_unit_from_text(text) ==
    LET text_upper == Upper(text)
        named == {k \in DOMAIN unit_patterns :
                    \E p \in unit_patterns[k].patterns : Contains(text_upper, p)}
    IN  IF text = <<>> THEN <<"U", "N", "D">>
        ELSE IF \E m \in PackMarkers : Contains(text_upper, m) THEN <<"D", "O", "C">>
        ELSE IF named # {} THEN unit_patterns[First(named)].unit
        ELSE <<"U", "N", "D">>

\* r'\(([A-Z0-9-]+)\)': the positions of a "(" that opens a code, and the code
ParenthesisedAt(text) ==
    {i \in DOMAIN text :
        /\ text[i] = "("
        /\ PrefixLen(Drop(text, i), CodeChars) >= 1
        /\ i + PrefixLen(Drop(text, i), CodeChars) < Len(text)
        /\ text[i + PrefixLen(Drop(text, i), CodeChars) + 1] = ")"}

Parenthesised(text, i) == SubSeq(text, i + 1, i + PrefixLen(Drop(text, i), CodeChars))

\* r'REF[:\s]*([A-Z0-9-]+)'
AfterRef(text, i) ==
    Drop(Drop(text, i + 2), PrefixLen(Drop(text, i + 2), {":"} \cup SpaceChars))

RefAt(text) ==
    {i \in DOMAIN text :
        /\ i + 2 <= Len(text)
        /\ Upper(SubSeq(text, i, i + 2)) = <<"R", "E", "F">>
        /\ PrefixLen(AfterRef(text, i), CodeChars) >= 1}

Referenced(text, i) ==
    SubSeq(AfterRef(text, i), 1, PrefixLen(AfterRef(text, i), CodeChars))

\* r'([A-Z0-9]{3,}-[A-Z0-9]+)'
HyphenatedLen(text, i) ==
    LET head_len == PrefixLen(Drop(text, i - 1), AlnumChars)
        rest == Drop(text, i - 1 + head_len)
    IN  IF head_len >= 3 /\ rest # <<>> /\ Head(rest) = "-"
           /\ PrefixLen(Tail(rest), AlnumChars) >= 1
        THEN head_len + 1 + PrefixLen(Tail(rest), AlnumChars)
        ELSE 0

HyphenatedAt(text) == {i \in DOMAIN text : HyphenatedLen(text, i) > 0}

\* r'^([A-Z0-9]{3,})\s'
LeadingCodeLen(text) ==
    LET head_len == PrefixLen(text, AlnumChars)
    IN  IF head_len >= 3 /\ head_len < Len(text) /\ IsSpace(text[head_len + 1])
        THEN head_len ELSE 0

\* description.split()[0]; <<>> when there is no word
FirstWord(text) ==
    LET body == Drop(text, PrefixLen(text, SpaceChars))
    IN  SubSeq(body, 1, PrefixLen(body, {body[i] : i \in DOMAIN body} \ SpaceChars))

_extract_product_code(description) ==
    IF description = <<>> THEN <<>>
    ELSE IF ParenthesisedAt(description) # {}
    THEN Parenthesised(description, First(ParenthesisedAt(description)))
    ELSE IF RefAt(description) # {}
    THEN Referenced(description, First(RefAt(description)))
    ELSE IF HyphenatedAt(description) # {}
    THEN SubSeq(description, First(HyphenatedAt(description)),
                First(HyphenatedAt(description))
                    + HyphenatedLen(description, First(HyphenatedAt(description))) - 1)
    ELSE IF LeadingCodeLen(description) > 0
    THEN SubSeq(description, 1, LeadingCodeLen(description))
    ELSE IF Len(FirstWord(description)) >= 3 THEN FirstWord(description)
    ELSE SubSeq(description, 1, IF Len(description) < 20 THEN Len(description) ELSE 20)

IsNotFormatting(c) == c \notin {"$", ",", "."} \cup SpaceChars

\* float(clean_value) succeeds
IsFloatLiteral(clean_value) ==
    LET digits == IF clean_value # <<>> /\ Head(clean_value) \in {"+", "-"}
                  THEN Tail(clean_value) ELSE clean_value
    IN  digits # <<>> /\ PrefixLen(digits, DigitChars) = Len(digits)

_is_numeric(value) ==
    value # <<>> /\ IsFloatLiteral(SelectSeq(value, IsNotFormatting))

\* re.sub(r'^\d+\s+', '', raw_reference.strip())
WithoutLeadingNumber(text) ==
    LET number_len == PrefixLen(text, DigitChars)
        space_len == PrefixLen(Drop(text, number_len), SpaceChars)
    IN  IF number_len >= 1 /\ space_len >= 1 THEN Drop(text, number_len + space_len)
        ELSE text

_clean_reference(raw_reference) ==
    IF raw_reference = <<>> \/ WithoutLeadingNumber(Strip(raw_reference)) = <<>>
    THEN NoneV
    ELSE Str(WithoutLeadingNumber(Strip(raw_reference)))

\* str.isdigit()
IsDigits(text) == text # <<>> /\ PrefixLen(text, DigitChars) = Len(text)

InvoiceLine(item_number, product_code, description, reference, unit, qty, unit_price, subtotal) ==
    [item_number |-> IntV(item_number), product_code |-> Str(product_code),
     description |-> Str(description), reference |-> reference,
     unit_measure |-> Str(unit), quantity |-> _parse_decimal(qty),
     unit_price |-> _parse_decimal(unit_price), subtotal |-> _parse_decimal(subtotal)]

\* the last three numeric cells are quantity, price and subtotal
DetectedLine(clean_row, row_index, numeric_indices) ==
    LET count == Len(numeric_indices)
        qty_idx == numeric_indices[count - 2]
        before == SubSeq(clean_row, 1, qty_idx - 1)
        numbered == before # <<>> /\ IsDigits(before[1])
        item_num == IF numbered THEN DigitsToInt(before[1]) ELSE 0
        full_description == Join(IF numbered THEN Tail(before) ELSE before, <<" ">>)
    IN  InvoiceLine(IF item_num # 0 THEN item_num ELSE row_index,
                    _extract_product_code(full_description), full_description,
                    _clean_reference(clean_row[1]),
                    _detect_unit_from_text(full_description),
                    clean_row[qty_idx], clean_row[numeric_indices[count - 1]],
                    clean_row[numeric_indices[count]])

\* fallback: assume standard order
StandardLine(clean_row, row_index) ==
    LET count == Len(clean_row)
    IN  InvoiceLine(row_index, clean_row[1],
                    Join(SubSeq(clean_row, 2, count - 3), <<" ">>), Str(clean_row[1]),
                    _detect_unit_from_text(Join(clean_row, <<" ">>)),
                    clean_row[count - 2], clean_row[count - 1], clean_row[count])

\* {} is the dict without keys
_parse_colombian_invoice_line(row, row_index) ==
    LET clean_row == [i \in DOMAIN row |-> Strip(row[i])]
        numeric_indices == SelectSeq([i \in DOMAIN clean_row |-> i],
                                     LAMBDA i : _is_numeric(clean_row[i]))
    IN  IF Len(clean_row) < 4 THEN <<>>
        ELSE IF Len(numeric_indices) >= 3
        THEN DetectedLine(clean_row, row_index, numeric_indices)
        ELSE StandardLine(clean_row, row_index)

\* max(tables, key=lambda t: t['row_count']): the first of the largest
MainTable(tables) ==
    tables[First({i \in DOMAIN tables :
                    \A j \in DOMAIN tables : tables[j].row_count <= tables[i].row_count})]

\* item.get('description') and item.get('quantity') and item.get('unit_price')
HasEssentialData(item) ==
    /\ Truthy(Get(item, "description", NoneV))
    /\ Truthy(Get(item, "quantity", NoneV))
    /\ Truthy(Get(item, "unit_price", NoneV))

\* if item.get('description') and ...: line_items.append(item)
Appended(item) == IF HasEssentialData(item) THEN <<item>> ELSE <<>>

\* the loop over main_table['rows'], i counting from 0
RECURSIVE TableItems(_, _)
TableItems(rows, i) ==
    IF i >= Len(rows) THEN <<>>
    ELSE (IF i > 0 /\ Len(rows[i + 1]) >= 3
          THEN Appended(_parse_colombian_invoice_line(rows[i + 1], i))
          ELSE <<>>)
         \o TableItems(rows, i + 1)

\* [raised, items].  With no item from the table the method calls
\* self._extract_items_from_text_lines, which no class defines: the call
\* raises AttributeError, and the mock item below it is never reached.
ItemsOrRaise(line_items) == [raised |-> line_items = <<>>, items |-> line_items]

_extract_line_items(tables, lines) ==
    ItemsOrRaise(IF tables # <<>> THEN TableItems(MainTable(tables).rows, 0) ELSE <<>>)

(***************************************************************************)
(* _extract_invoice_data.  The six field extractors of lines 80-87         *)
(* (invoice number, dates, supplier, customer, totals, payment) read       *)
(* lines and key_values with re.search and return None or a dict for every *)
(* list of strings; their keys are left out of the dict modelled here.     *)
(***************************************************************************)
raw_invoice_data(lines, key_values, tables, line_items) ==
    [line_items |-> line_items, full_text |-> Str(Join(lines, <<"\n">>)),
     raw_tables |-> tables, raw_key_values |-> key_values]

\* try: return enhance_textract_response(raw_invoice_data)
\* except Exception: return raw_invoice_data
OutcomeOrRaw(outcome, raw) == IF outcome.raised THEN raw ELSE outcome.data

EnhancedOrRaw(raw) == OutcomeOrRaw(enhance_extracted_data(raw), raw)

\* [raised, data]: the exception of _extract_line_items leaves the method,
\* the dict is built outside every try
InvoiceData(lines, key_values, tables, extracted) ==
    IF extracted.raised THEN [raised |-> TRUE, data |-> <<>>]
    ELSE [raised |-> FALSE,
          data |-> EnhancedOrRaw(raw_invoice_data(lines, key_values, tables, extracted.items))]

LinesAndTables(blocks, lines, tables) ==
    InvoiceData(lines, _extract_key_values(blocks), tables, _extract_line_items(tables, lines))

_extract_invoice_data(blocks) ==
    LinesAndTables(blocks, _get_text_lines(blocks), _extract_tables(blocks))

(***************************************************************************)
(* invoice_processor.py: InvoiceProcessorService, the in-memory store.     *)
(* processed_invoices is a dict from invoice_id to a ProcessedInvoice      *)
(* [id, tenant_id, upload_timestamp, status, invoice_data]; the timestamp  *)
(* is the number of the upload, invoice_data is "mock" once the mock data  *)
(* is attached.  A lookup gives <<invoice>>, or <<>> for None.             *)
(***************************************************************************)
ProcessedInvoice(invoice_id, tenant_id, timestamp) ==
    [id |-> invoice_id, tenant_id |-> tenant_id, upload_timestamp |-> timestamp,
     status |-> "uploaded", invoice_data |-> "none"]

\* self.processed_invoices.get(invoice_id)
Lookup(invoices, invoice_id) ==
    IF invoice_id \in DOMAIN invoices THEN <<invoices[invoice_id]>> ELSE <<>>

\* if invoice_id in self.processed_invoices: ....status = PROCESSING
MarkProcessing(invoices, invoice_id) ==
    IF invoice_id \in DOMAIN invoices
    THEN [invoices EXCEPT ![invoice_id].status = "processing"]
    ELSE invoices

\* if invoice_id in self.processed_invoices: ....status = COMPLETED, with
\* the mock data
MarkCompleted(invoices, invoice_id) ==
    IF invoice_id \in DOMAIN invoices
    THEN [invoices EXCEPT ![invoice_id].status = "completed",
                          ![invoice_id].invoice_data = "mock"]
    ELSE invoices

get_invoice_status(invoices, invoice_id, tenant_id) ==
    IF Lookup(invoices, invoice_id) # <<>> /\ invoices[invoice_id].tenant_id = tenant_id
    THEN Lookup(invoices, invoice_id)
    ELSE <<>>

\* <<invoice_data>>, or <<>> for None
get_invoice_data(invoices, invoice_id, tenant_id) ==
    LET invoice == get_invoice_status(invoices, invoice_id, tenant_id)
    IN  IF invoice # <<>> /\ invoice[1].status = "completed"
        THEN <<invoice[1].invoice_data>> ELSE <<>>

\* tenant_invoices.sort(key=lambda x: x.upload_timestamp, reverse=True)
RECURSIVE NewestFirst(_)
NewestFirst(found) ==
    IF found = {} THEN <<>>
    ELSE LET newest == CHOOSE x \in found :
                          \A y \in found : y.upload_timestamp <= x.upload_timestamp
         IN  <<newest>> \o NewestFirst(found \ {newest})

\* status is "" when the caller gives none; the slice [offset:offset + limit]
list_tenant_invoices(invoices, tenant_id, limit, offset, status) ==
    LET tenant_invoices ==
            NewestFirst({invoices[i] : i \in {j \in DOMAIN invoices :
                            /\ invoices[j].tenant_id = tenant_id
                            /\ (status # "" => invoices[j].status = status)}})
        last == IF offset + limit < Len(tenant_invoices)
                THEN offset + limit ELSE Len(tenant_invoices)
    IN  SubSeq(tenant_invoices, offset + 1, last)

\* whether delete_invoice deletes
Deletes(invoices, invoice_id, tenant_id) ==
    Lookup(invoices, invoice_id) # <<>> /\ invoices[invoice_id].tenant_id = tenant_id

Without(invoices, invoice_id) ==
    [i \in DOMAIN invoices \ {invoice_id} |-> invoices[i]]

(***************************************************************************)
(* document_processing/invoice_processor.py: InvoiceProcessorService on    *)
(* the database.  The database is a record of its tables: tenants by       *)
(* tenant_id, invoices by id, line_items by id, billing a set of records.  *)
(* A column that may be NULL holds <<>> or <<value>>.  A statement that    *)
(* the database refuses (primary key, unique index, NOT NULL, foreign key) *)
(* raises, and the handler rolls the transaction back.  The columns of an  *)
(* invoice that only copy extracted fields are left out.                   *)
(***************************************************************************)
\* max_invoices_month of a tenant the upload creates
FreemiumLimit == 10

\* Tenant(..., max_invoices_month=10, invoices_processed_month=0)
NewTenant == [invoices_processed_month |-> 0, max_invoices_month |-> FreemiumLimit]

\* tenant.invoices_processed_month >= tenant.max_invoices_month
LimitReached(tenant) == tenant.invoices_processed_month >= tenant.max_invoices_month

\* ProcessedInvoice(id=..., tenant_id=..., status="uploaded")
UploadedInvoice(tenant_id) ==
    [tenant_id |-> tenant_id, status |-> "uploaded", error_message |-> <<>>,
     pricing_status |-> "not_required"]

\* session.commit() of an upload refuses a second row of the same id, and a
\* second tenant row of the same tenant_id
UploadRefused(rows, upload) ==
    \/ upload.invoice_id \in DOMAIN rows.invoices
    \/ upload.created /\ upload.tenant_id \in DOMAIN rows.tenants

\* the rows after session.commit() of an upload
UploadCommitted(rows, upload) ==
    [rows EXCEPT
        !.tenants = IF upload.created THEN Put(@, upload.tenant_id, NewTenant) ELSE @,
        !.invoices = Put(@, upload.invoice_id, UploadedInvoice(upload.tenant_id))]

\* the line_items of _create_mock_extraction
_create_mock_extraction ==
    << [description |-> "MOCK PRODUCT - DEVELOPMENT TESTING", quantity |-> <<5>>,
        unit_price |-> <<10000>>, subtotal |-> <<50000>>] >>

\* extracted_data.get("line_items") or []: what analyze_invoice extracted,
\* or the mock data when it raised
ExtractedItems(ocr) ==
    IF ocr.raised THEN _create_mock_extraction ELSE ocr.line_items

\* if item_data and item_data.get("description")
Described(item) == item.description # ""

\* quantity, unit_price and subtotal are NOT NULL
Storable(item) == item.quantity # <<>> /\ item.unit_price # <<>> /\ item.subtotal # <<>>

\* InvoiceLineItem(invoice_id=invoice.id, ...), is_priced defaults to False
LineItemRow(invoice_id, item) ==
    [invoice_id |-> invoice_id, description |-> item.description,
     quantity |-> item.quantity[1], unit_price |-> item.unit_price[1],
     subtotal |-> item.subtotal[1], sale_price |-> <<>>, markup_percentage |-> <<>>,
     is_priced |-> FALSE]

\* the rows session.add(line_item) adds; the row ids are new
AddedLineItems(line_items, invoice_id, items) ==
    [id \in DOMAIN line_items \cup {<<invoice_id, k>> : k \in DOMAIN items} |->
        IF id \in DOMAIN line_items THEN line_items[id]
        ELSE LineItemRow(invoice_id, items[id[2]])]

\* the commit of a finished task: the invoice completed, its line items, the
\* tenant's counter and the billing record
Completed(rows, invoice_id, items) ==
    [rows EXCEPT
        !.invoices[invoice_id].status = "completed",
        !.line_items = AddedLineItems(@, invoice_id, items),
        !.tenants[rows.invoices[invoice_id].tenant_id].invoices_processed_month = @ + 1,
        !.billing = @ \cup {[tenant_id |-> rows.invoices[invoice_id].tenant_id,
                             invoice_id |-> invoice_id]}]

\* update(ProcessedInvoice).values(status="failed", error_message=str(e))
Failed(rows, invoice_id) ==
    [rows EXCEPT !.invoices[invoice_id].status = "failed",
                 !.invoices[invoice_id].error_message = <<"error">>]

\* a task whose last commit and whose failure update are both lost
LeftProcessing(rows, invoice_id, items) == rows

\* the rows after the task has the extracted items: the UPDATE of a deleted
\* invoice and the INSERT of an item without quantity, price or subtotal
\* raise, and the except branch writes the failure where the row still is
Processed(rows, invoice_id, items) ==
    IF invoice_id \notin DOMAIN rows.invoices THEN rows
    ELSE IF \E k \in DOMAIN items : ~Storable(items[k]) THEN Failed(rows, invoice_id)
    ELSE Completed(rows, invoice_id, items)

\* the rows that refer to an invoice by foreign key
Referring(rows, invoice_id) ==
    \/ \E id \in DOMAIN rows.line_items : rows.line_items[id].invoice_id = invoice_id
    \/ \E record \in rows.billing : record.invoice_id = invoice_id

\* whether delete_invoice deletes: the row is the tenant's and no row refers
\* to it (the DELETE of a referred row raises, and False is returned)
DeletesRow(rows, invoice_id, tenant_id) ==
    /\ invoice_id \in DOMAIN rows.invoices
    /\ rows.invoices[invoice_id].tenant_id = tenant_id
    /\ ~Referring(rows, invoice_id)

DeletedRow(rows, invoice_id) ==
    [rows EXCEPT !.invoices = [i \in DOMAIN @ \ {invoice_id} |-> @[i]]]

\* ((Decimal(str(sale_price)) - cost_per_unit) / cost_per_unit) * 100, as a
\* fraction
Markup(sale_price, cost_per_unit) ==
    <<[n |-> 100 * (sale_price - cost_per_unit), d |-> cost_per_unit]>>

\* the line item of that id and invoice, whatever the tenant of the invoice
Priceable(line_items, entry, invoice_id) ==
    /\ entry.line_item_id \in DOMAIN line_items
    /\ line_items[entry.line_item_id].invoice_id = invoice_id

\* if not line_item_id or not sale_price: continue
Skipped(entry) == entry.line_item_id = <<>> \/ entry.sale_price = 0

\* the loop over pricing_data['line_items']: [raised, line_items, updated_items]
RECURSIVE PriceLoop(_, _, _, _)
PriceLoop(line_items, entries, invoice_id, updated_items) ==
    IF entries = <<>>
    THEN [raised |-> FALSE, line_items |-> line_items, updated_items |-> updated_items]
    ELSE IF Skipped(Head(entries)) \/ ~Priceable(line_items, Head(entries), invoice_id)
    THEN PriceLoop(line_items, Tail(entries), invoice_id, updated_items)
    ELSE IF line_items[Head(entries).line_item_id].unit_price = 0
    THEN [raised |-> TRUE, line_items |-> line_items, updated_items |-> 0]
    ELSE PriceLoop(
            [line_items EXCEPT
                ![Head(entries).line_item_id].sale_price = <<Head(entries).sale_price>>,
                ![Head(entries).line_item_id].markup_percentage =
                    Markup(Head(entries).sale_price,
                           line_items[Head(entries).line_item_id].unit_price),
                ![Head(entries).line_item_id].is_priced = TRUE],
            Tail(entries), invoice_id, updated_items + 1)

\* update(ProcessedInvoice).where(id == ...).where(tenant_id == ...)
\*     .values(pricing_status=...)
WithPricingStatus(invoices, invoice_id, tenant_id, pricing_status) ==
    IF invoice_id \in DOMAIN invoices /\ invoices[invoice_id].tenant_id = tenant_id
    THEN [invoices EXCEPT ![invoice_id].pricing_status = pricing_status]
    ELSE invoices

\* [raised, rows, updated_items]
PricingSet(rows, invoice_id, tenant_id, priced) ==
    IF priced.raised THEN [raised |-> TRUE, rows |-> rows, updated_items |-> 0]
    ELSE [raised |-> FALSE,
          rows |-> [rows EXCEPT
                      !.line_items = priced.line_items,
                      !.invoices = WithPricingStatus(@, invoice_id, tenant_id, "partial")],
          updated_items |-> priced.updated_items]

set_invoice_pricing(rows, invoice_id, tenant_id, line_items_data) ==
    PricingSet(rows, invoice_id, tenant_id,
               PriceLoop(rows.line_items, line_items_data, invoice_id, 0))

\* the line items of the invoice, whatever its tenant
ItemsOfInvoice(rows, invoice_id) ==
    {id \in DOMAIN rows.line_items : rows.line_items[id].invoice_id = invoice_id}

\* [raised, rows, status, total_items]
confirm_invoice_pricing(rows, invoice_id, tenant_id) ==
    IF \E id \in ItemsOfInvoice(rows, invoice_id) : ~rows.line_items[id].is_priced
    THEN [raised |-> TRUE, rows |-> rows, status |-> "", total_items |-> 0]
    ELSE [raised |-> FALSE,
          rows |-> [rows EXCEPT
                      !.invoices = WithPricingStatus(@, invoice_id, tenant_id, "confirmed")],
          status |-> "confirmed",
          total_items |-> Cardinality(ItemsOfInvoice(rows, invoice_id))]

(***************************************************************************)
(* Idle values of the components a specification does not exercise.        *)
(***************************************************************************)
RoundIdle == price = 0 /\ rounded = -1

EnhanceIdle == raw_data = <<>> /\ enhanced = <<>> /\ enhanced2 = <<>>

PricingIdle == request = <<>> /\ response = <<>>

roundVars == <<price, rounded>>

enhanceVars == <<raw_data, enhanced, enhanced2>>

pricingVars == <<request, response>>

CallIdle == args = <<>> /\ returned = <<>>

StoreIdle ==
    /\ processed_invoices = <<>>
    /\ sleeping = {}
    /\ uploads = 0
    /\ last_call = <<>>

callVars == <<args, returned>>

storeVars == <<processed_invoices, sleeping, uploads, last_call>>

DbIdle ==
    /\ db = <<>>
    /\ in_flight = {}
    /\ tasks = <<>>
    /\ issued = 0
    /\ db_call = <<>>

dbVars == <<db, in_flight, tasks, issued, db_call>>

(***************************************************************************)
(* SpecEnhance: enhance_extracted_data on a raw invoice, then once more on *)
(* its own output.  The raw invoices are those the extraction service can  *)
(* hand over, plus malformed rows (null / non-string / unparseable fields).*)
(***************************************************************************)
Omit == [k |-> "omit", n |-> 0, d |-> 1, s |-> <<>>]

\* a key that may be missing: <<>> when missing, <<value>> when present
Opt(value) == IF value = Omit THEN <<>> ELSE <<value>>

\* the dict holding the keys that are present
Dict(fields) == [key \in {x \in DOMAIN fields : fields[x] # <<>>} |-> fields[key][1]]

LineItem(code, desc, qty, unit, unit_price, subtotal, item_number) ==
    Dict([product_code |-> Opt(code), description |-> Opt(desc),
          quantity |-> Opt(qty), unit_measure |-> Opt(unit),
          unit_price |-> Opt(unit_price), subtotal |-> Opt(subtotal),
          item_number |-> Opt(item_number)])

Unparseable == Str(<<"x">>)

PlainCode == Str(<<"A", "-", "7">>)

PlainDescription == Str(<<"B", "O", "T", "A">>)

Prices == (BasePrice - PriceSpread)..(BasePrice + PriceSpread)

QuantityValues == {Num(q, 1) : q \in -1..MaxQty} \cup {NoneV, Unparseable}

PriceValues == {Num(v, 1) : v \in Prices \cup {0}} \cup {NoneV, Unparseable}

SubtotalValues ==
    {Num(q * v, 1) : q \in 0..MaxQty, v \in Prices}
        \cup {Omit, NoneV, Unparseable}

UnitValues ==
    { Str(<<"D", "O", "C">>), Str(<<"D", "O", "C", "E", "N", "A">>),
      Str(<<"P", "A", "R">>), Str(<<"P", "A", "R", "E", "S">>),
      Str(<<"G", "R", "S">>), Str(<<"G", "R", "U", "E", "S", "A">>),
      Str(PCS), Str(<<"U", "N", "D">>), Str(<<"C", "A", "J", "A">>),
      Str(<<"d", "o", "c">>), Str(<<" ", "P", "A", "R", " ">>),
      Str(<<>>), NoneV, IntV(5), Omit }

CodeValues ==
    { PlainCode, Str(<<"1", " ", "A">>), Str(<<"2", " ", "A">>),
      Str(<<"0", "1", " ", " ", "A">>), Str(<<"1", ".", " ", "A">>),
      Str(<<"2", ")", "A">>), Str(<<"1", " ", "1", " ", "A">>),
      Str(<<"1", ".", ".">>), Str(<<"2", ".">>), Str(<<"1">>),
      Str(<<"r", "e", "f", ":", " ", "A", " ", " ", "7">>),
      Str(<<"C", "O", "D", "I", "G", "O", " ", "9">>),
      Str(<<" ">>), Str(<<>>), NoneV, IntV(5), Omit }

DescriptionValues ==
    { PlainDescription, Str(<<" ", "B", "*", " ", " ", "(", "X", "7", ")">>),
      Str(<<"*", "$">>), Str(<<>>), NoneV, Omit }

\* unit conversion: every quantity, unit and price
ConversionItems ==
    { LineItem(PlainCode, PlainDescription, q, u, p, Omit, Omit) :
        q \in QuantityValues, u \in UnitValues, p \in PriceValues }

\* subtotal reconciliation: every stated subtotal.  The units are those whose
\* per-piece price is an exact Decimal, so that the 5% comparison of the
\* code is the comparison of the exact fractions.
SubtotalItems ==
    { LineItem(PlainCode, PlainDescription, Num(q, 1), u, Num(p, 1), s, Omit) :
        q \in 1..MaxQty, u \in {Str(<<"P", "A", "R">>), Str(<<"U", "N", "D">>)},
        p \in Prices, s \in SubtotalValues }

\* text fields: every product code and description, with and without an
\* item number assigned upstream
TextItems ==
    { LineItem(c, d, Num(2, 1), Str(<<"D", "O", "C">>), Num(BasePrice, 1),
               Num(2 * BasePrice, 1), n) :
        c \in CodeValues, d \in DescriptionValues, n \in {Omit, IntV(7)} }

\* the rows of test_unit_conversions and the reconciliation example
DocumentedItems ==
    { LineItem(PlainCode, PlainDescription, Num(1, 1), Str(<<"D", "O", "C">>),
               Num(105000, 1), Num(105000, 1), Omit),
      LineItem(PlainCode, PlainDescription, Num(2, 1), Str(<<"P", "A", "R">>),
               Num(84000, 1), Num(168000, 1), Omit),
      LineItem(PlainCode, PlainDescription, Num(12, 1), Str(<<"U", "N", "D">>),
               Num(5000, 1), Num(50000, 1), Omit) }

ItemValues == ConversionItems \cup SubtotalItems \cup TextItems \cup DocumentedItems

\* the rows that accompany a varied row in a longer invoice: a well-formed
\* dozen, a row whose unit is null, a row already in units
CompanionItems ==
    { LineItem(Str(<<"2", " ", "A">>), PlainDescription, Num(1, 1),
               Str(<<"D", "O", "C">>), Num(BasePrice, 1), Omit, Omit),
      LineItem(Str(<<"1", " ", "A">>), PlainDescription, Num(1, 1), NoneV,
               Num(BasePrice, 1), Omit, Omit),
      LineItem(PlainCode, PlainDescription, Num(1, 1), Str(<<"U", "N", "D">>),
               Num(BasePrice, 1), Num(BasePrice, 1), Omit) }

\* one-row invoices over every row; longer invoices of up to MaxItems rows
\* with one varied row among companions, at every position
LineItemLists ==
    { <<item>> : item \in ItemValues } \cup
    UNION { UNION { { [j \in 1..len |-> IF j = i THEN varied ELSE others[j]] :
                        varied \in TextItems \cup DocumentedItems,
                        others \in [1..len -> CompanionItems] }
                    : i \in 1..len }
            : len \in 2..MaxItems }

DirtyName == Str(<<" ", "A", "*", " ", " ", "B", ",">>)

SupplierValues ==
    { <<>>, <<[company_name |-> DirtyName, nit |-> Str(<<"7", "0">>)]>>,
      <<[company_name |-> NoneV]>> }

CustomerValues == { <<>>, <<[customer_name |-> DirtyName]>> }

TotalsValues ==
    { <<>> } \cup
    { <<[total |-> v]>> : v \in {NoneV, Unparseable, Num(0, 1), Num(-1, 1), Num(100, 1)} }

Invoice(line_items, supplier, customer, invoice_number, totals) ==
    Dict([line_items |-> line_items, supplier |-> supplier,
          customer |-> customer, invoice_number |-> invoice_number,
          totals |-> totals])

\* every line-item list with the invoice-level fields of a plain invoice
ItemInvoices ==
    { Invoice(<<list>>, <<>>, <<>>, <<Str(<<"J", "-", "1">>)>>,
              <<[total |-> Num(100, 1)]>>) :
        list \in LineItemLists }

\* every combination of invoice-level fields over a few line-item lists
HeaderInvoices ==
    { Invoice(list, s, c, n, tot) :
        list \in {<<>>, << <<>> >>} \cup {<< <<i>> >> : i \in CompanionItems},
        s \in SupplierValues, c \in CustomerValues,
        n \in {Opt(v) : v \in {Omit, NoneV, DirtyName}}, tot \in TotalsValues }

EnhanceInit ==
    /\ pc = "start"
    /\ raw_data \in ItemInvoices \cup HeaderInvoices
    /\ enhanced = <<>>
    /\ enhanced2 = <<>>
    /\ RoundIdle
    /\ PricingIdle
    /\ CallIdle
    /\ StoreIdle
    /\ DbIdle

\* what a call leaves behind: its result, and its argument as the call left it
FirstPass(outcome) ==
    /\ enhanced' = [raised |-> outcome.raised, data |-> outcome.data]
    /\ raw_data' = outcome.raw

SecondPass(outcome) ==
    /\ enhanced2' = [raised |-> outcome.raised, data |-> outcome.data]
    /\ enhanced' = [enhanced EXCEPT !.data = outcome.raw]
    /\ raw_data' = SharedBlocks(raw_data, outcome.raw)

\* enhanced_data = enhancer.enhance_extracted_data(raw_data)
Enhance ==
    /\ pc = "start"
    /\ FirstPass(enhance_extracted_data(raw_data))
    /\ pc' = "enhanced"
    /\ UNCHANGED <<enhanced2, roundVars, pricingVars, callVars, storeVars, dbVars>>

\* a second pass over the returned dict; the supplier and customer dicts are
\* still the ones raw_data and the first result refer to
EnhanceAgain ==
    /\ pc = "enhanced"
    /\ ~enhanced.raised
    /\ SecondPass(enhance_extracted_data(enhanced.data))
    /\ pc' = "again"
    /\ UNCHANGED <<roundVars, pricingVars, callVars, storeVars, dbVars>>

EnhanceNext == Enhance \/ EnhanceAgain

SpecEnhance == EnhanceInit /\ [][EnhanceNext]_vars

(***************************************************************************)
(* SpecPricing: one call of recommend_sale_price.                          *)
(***************************************************************************)
\* one cost in each rounding tier and around the tier boundaries
LargeCosts ==
    {64, 100, 640, 1040, 1300, 5000, 6200, 6500, 9000, 17000, 50000}

Costs == 1..MaxCost \cup LargeCosts

\* one quantity on each side of every threshold of the quantity factor
Quantities == {1, 3, 4, 19, 20, 49, 50}

ZeroShotConfidences == {65, 99}

Classifications ==
    {_fallback_classify(category) : category \in KeywordCategories}
        \cup {_ml_classify(category, confidence) :
                category \in ZeroShotCategories \ KeywordCategories,
                confidence \in ZeroShotConfidences}

Sale(product_code, sale_price, cost_price, supplier, recent) ==
    [product_code |-> product_code, sale_price |-> sale_price,
     cost_price |-> cost_price, supplier |-> supplier, recent |-> recent]

\* two sales of P1, three sales by ACME with margins of 40, 50 and 60 percent,
\* three with one unrealistic margin, three with two, a sale without a price,
\* a sale whose supplier is null
Histories ==
    { <<>>,
      <<Sale("P1", PyInt(3000), PyInt(2000), "otro", TRUE),
        Sale("P1", PyInt(5000), PyInt(2000), "otro", FALSE)>>,
      <<Sale("P1", PyInt(3000), PyInt(2000), "otro", FALSE),
        Sale("P1", PyNone, PyInt(2000), "otro", TRUE)>>,
      <<Sale("P2", PyInt(1400), PyInt(1000), "ACME", TRUE),
        Sale("P2", PyInt(1600), PyInt(1000), "acme", TRUE),
        Sale("P3", PyInt(1500), PyInt(1000), "acme", FALSE)>>,
      <<Sale("P2", PyInt(1100), PyInt(1000), "acme", TRUE),
        Sale("P2", PyInt(1300), PyInt(1000), "acme", TRUE),
        Sale("P3", PyInt(1500), PyInt(1000), "acme", FALSE)>>,
      <<Sale("P2", PyInt(1100), PyInt(1000), "acme", TRUE),
        Sale("P2", PyInt(4000), PyInt(1000), "acme", TRUE),
        Sale("P3", PyInt(1500), PyInt(1000), "acme", FALSE)>>,
      <<Sale("P2", PyInt(1400), PyInt(1000), "acme", TRUE),
        Sale("P2", PyInt(1600), PyInt(1000), "None", TRUE)>> }

Request(product_code, description, found, cost_price, quantity, historical_data, supplier) ==
    [product_code |-> product_code, description |-> description,
     found |-> found, cost_price |-> cost_price, quantity |-> quantity,
     historical_data |-> historical_data, supplier |-> supplier]

\* every cost, quantity and classification, without history
PlainRequests ==
    { Request("P1", "text", found, PyInt(cost), quantity, <<>>, "None") :
        found \in Classifications, cost \in Costs,
        quantity \in {Dec(q, 1) : q \in Quantities} \cup {PyInt(10)} }

\* every type of cost and quantity, every kind of description
TypedRequests ==
    { Request("P1", description, _fallback_classify("shoes"), cost_price,
              quantity, <<>>, "None") :
        description \in {"None", "blank", "text", "number"},
        cost_price \in {PyInt(6200), Dec(6200, 1), PyFloat(6200, 1),
                        PyInt(17), Dec(17, 1)},
        quantity \in {Dec(24, 1), PyInt(24), PyNone} }

\* every history, with and without a supplier and a product code
HistoryRequests ==
    { Request(product_code, "text", _fallback_classify(category), PyInt(cost),
              Dec(10, 1), historical_data, supplier) :
        product_code \in {"None", "P1"}, category \in {"shoes", "general"},
        cost \in {17, 1000, 6200}, historical_data \in Histories,
        supplier \in {"None", "", "acme", "ACME", "otro"} }

PricingInit ==
    /\ pc = "start"
    /\ request \in PlainRequests \cup TypedRequests \cup HistoryRequests
    /\ response = <<>>
    /\ RoundIdle
    /\ EnhanceIdle
    /\ CallIdle
    /\ StoreIdle
    /\ DbIdle

\* result = await engine.recommend_sale_price(...)
Recommend ==
    /\ pc = "start"
    /\ response' = recommend_sale_price(request)
    /\ pc' = "done"
    /\ UNCHANGED <<request, roundVars, enhanceVars, callVars, storeVars, dbVars>>

PricingNext == Recommend

SpecPricing == PricingInit /\ [][PricingNext]_vars

(***************************************************************************)
(* SpecSeparate: one call of _separate_item_and_ref(item, line_number), as *)
(* test_item_ref_separation makes it.                                      *)
(***************************************************************************)
\* the row positions tried besides 1..MaxLine (the rows of the test)
TestedLines == {5, 15}

SeparationCodes ==
    { Str(<<"1", " ", "0", "4", "9", " ", "(", "D", "A", "M", "A", ")">>), Str(<<"2", " ", "9", "3", "0", "-", "D">>), Str(<<"1", "5", ".", " ", "A", "B", "C", "-", "1", "2", "3">>),
      Str(<<"C", "L", "E", "A", "N", "-", "R", "E", "F">>), Str(<<"1", " ", "A">>), Str(<<"2", " ", "A">>), Str(<<"3", " ", "A">>),
      Str(<<"1", ".", " ", "A">>), Str(<<"2", ")", " ", "A">>), Str(<<"2", ")", "A">>), Str(<<"3", ".", "A">>),
      Str(<<"0", "1", " ", " ", "A">>), Str(<<"1", " ", "1", " ", "A">>), Str(<<"1", ".", ".">>), Str(<<"2", ".">>),
      Str(<<"1">>), Str(<<"1", "2", " ", "A">>), Str(<<"1", "\t", "A">>), Str(<<" ", "1", " ", "A", " ">>),
      Str(<<"A", " ", "1">>), Str(<<"1", "A">>), Str(<<" ">>), Str(<<>>),
      NoneV, IntV(5), Omit }

SeparationItems ==
    { LineItem(code, PlainDescription, Omit, Omit, Omit, Omit, number) :
        code \in SeparationCodes, number \in {Omit, IntV(7)} }

SeparateInit ==
    /\ pc = "start"
    /\ args \in [item : SeparationItems, line_number : 1..MaxLine \cup TestedLines]
    /\ returned = <<>>
    /\ RoundIdle
    /\ EnhanceIdle
    /\ PricingIdle
    /\ StoreIdle
    /\ DbIdle

\* enhanced_item = enhancer._separate_item_and_ref(item, line_number)
Separate ==
    /\ pc = "start"
    /\ returned' = _separate_item_and_ref(args.item, args.line_number)
    /\ pc' = "done"
    /\ UNCHANGED <<args, roundVars, enhanceVars, pricingVars, storeVars, dbVars>>

SeparateNext == Separate

SpecSeparate == SeparateInit /\ [][SeparateNext]_vars

(***************************************************************************)
(* SpecDecimal: one call of either decimal parser on a text.               *)
(***************************************************************************)
\* every text of up to MaxText characters over two digits and the two
\* separators, and the texts of the documentation
DecimalAlphabet == {"0", "5", ".", ","}

DocumentedTexts ==
    { <<"1", ".", "2", "3", "4", ".", "5", "6", "7", ",", "8", "9">>, <<"5", "0", ".", "0", "0", "0">>, <<"$", " ", "1", ".", "2", "3", "4", ",", "5", "0">>, <<"1", ",", "2", "3", "4", ".", "5", "6">>,
      <<"1", ".", "2", "3", "4", ",", "5", "6", "7">>, <<"1", ",", "2", "3", "4", ",", "5", "6", "7", ".", "8", "9">>, <<"1", "2", ",", "5">>, <<"1", "2", ".", "5">>, <<"x">>,
      <<"-", "5">>, <<>> }

DecimalTexts ==
    UNION { [1..len -> DecimalAlphabet] : len \in 1..MaxText } \cup DocumentedTexts

DecimalInit ==
    /\ pc = "start"
    /\ args \in [text : DecimalTexts]
    /\ returned = <<>>
    /\ RoundIdle
    /\ EnhanceIdle
    /\ PricingIdle
    /\ StoreIdle
    /\ DbIdle

\* TextractService._parse_decimal(text)
ParseDecimal ==
    /\ pc = "start"
    /\ returned' = _parse_decimal(args.text)
    /\ pc' = "parsed"
    /\ UNCHANGED <<args, roundVars, enhanceVars, pricingVars, storeVars, dbVars>>

\* TextractDataEnhancer._clean_decimal_field(text)
CleanDecimalField ==
    /\ pc = "start"
    /\ returned' = _clean_decimal_field(Str(args.text))
    /\ pc' = "cleaned"
    /\ UNCHANGED <<args, roundVars, enhanceVars, pricingVars, storeVars, dbVars>>

DecimalNext == ParseDecimal \/ CleanDecimalField

SpecDecimal == DecimalInit /\ [][DecimalNext]_vars

(***************************************************************************)
(* SpecGraph: the block graph reader, and the whole extraction, on one     *)
(* list of blocks.  The graphs                                             *)
(* hold text lines, a form key with its value, and a table whose cells     *)
(* cover any part of a MaxTableRows x MaxTableCols grid; the relationships *)
(* of a graph may name an id that no block carries.                        *)
(***************************************************************************)
Block(id, type, text, row, col, entity, relationships) ==
    [Id |-> id, BlockType |-> type, Text |-> text, RowIndex |-> row,
     ColumnIndex |-> col, EntityTypes |-> entity, Relationships |-> relationships]

Rel(type, ids) == <<[Type |-> type, Ids |-> ids]>>

\* the id that no block carries
DanglingId == <<"none", 0, 0>>

\* ids, with the dangling id put first when the graph is to have one
WithDangling(ids, dangling) == IF dangling THEN <<DanglingId>> \o ids ELSE ids

RECURSIVE Flatten(_)
Flatten(seqs) == IF seqs = <<>> THEN <<>> ELSE Head(seqs) \o Flatten(Tail(seqs))

Reverse(seq) == [i \in DOMAIN seq |-> seq[Len(seq) + 1 - i]]

\* the words of the cell at (r, c): a header row, then a product row
HeaderWords == << <<<<"R", "E", "F">>>>, <<<<"C", "A", "N", "T">>>>, <<<<"V", "A", "L", "O", "R">>>>, <<<<"T", "O", "T", "A", "L">>>> >>

CellWords(r, c, qty) ==
    IF r = 1 THEN (IF c \in DOMAIN HeaderWords THEN HeaderWords[c] ELSE <<<<"I", "V", "A">>>>)
    ELSE CASE c = 1 -> <<<<"B", "O", "T", "A">>, <<"(", "X", "7", ")">>>>
           [] c = 2 -> <<qty>>
           [] c = 3 -> <<<<"2", "0">>>>
           [] OTHER -> <<<<"4", "0">>>>

WordIds(kind, r, c, words) == [k \in DOMAIN words |-> <<kind, 10 * r + c, k>>]

WordBlocks(kind, r, c, words) ==
    [k \in DOMAIN words |->
        Block(<<kind, 10 * r + c, k>>, "WORD", words[k], 0, 0, {}, <<>>)]

CellBlocks(r, c, qty, dangling) ==
    <<Block(<<"cell", r, c>>, "CELL", <<>>, r, c, {},
            Rel("CHILD", WithDangling(WordIds("word", r, c, CellWords(r, c, qty)), dangling)))>>
    \o WordBlocks("word", r, c, CellWords(r, c, qty))

\* the grid positions, row by row
GridPositions ==
    [i \in 1..(MaxTableRows * MaxTableCols) |->
        <<((i - 1) \div MaxTableCols) + 1, ((i - 1) % MaxTableCols) + 1>>]

\* a TABLE block over the cells at the given positions, named last first
TableBlocks(positions, qty, dangling) ==
    LET at == SelectSeq(GridPositions, LAMBDA p : p \in positions)
    IN  <<Block(<<"table", 0, 0>>, "TABLE", <<>>, 0, 0, {},
                Rel("CHILD", WithDangling(
                        Reverse([i \in DOMAIN at |-> <<"cell", at[i][1], at[i][2]>>]),
                        dangling)))>>
        \o Flatten([i \in DOMAIN at |-> CellBlocks(at[i][1], at[i][2], qty, dangling)])

\* two LINE blocks, one of them blank, and a form key "Factura" with its value
FormBlocks(dangling) ==
    << Block(<<"line", 1, 0>>, "LINE", <<" ", "F", "A", "C", "T", "U", "R", "A", " ", "J", "-", "1", " ">>, 0, 0, {}, <<>>),
       Block(<<"line", 2, 0>>, "LINE", <<" ", " ">>, 0, 0, {}, <<>>),
       Block(<<"key", 1, 0>>, "KEY_VALUE_SET", <<>>, 0, 0, {"KEY"},
             Rel("CHILD", WithDangling(WordIds("kw", 0, 0, <<<<"F", "a", "c", "t", "u", "r", "a">>>>), dangling))
             \o Rel("VALUE", WithDangling(<< <<"value", 1, 0>> >>, dangling))),
       Block(<<"value", 1, 0>>, "KEY_VALUE_SET", <<>>, 0, 0, {"VALUE"},
             Rel("CHILD", WithDangling(WordIds("vw", 0, 0, <<<<"J", "-", "1">>, <<"A">>>>), dangling))) >>
    \o WordBlocks("kw", 0, 0, <<<<"F", "a", "c", "t", "u", "r", "a">>>>)
    \o WordBlocks("vw", 0, 0, <<<<"J", "-", "1">>, <<"A">>>>)

\* the quantity cell of the product row
QuantityTexts == {<<"2">>, <<"-", "5">>, <<"0">>}

BlockGraphs ==
    { (IF form THEN FormBlocks(dangling) ELSE <<>>)
        \o (IF table THEN TableBlocks(positions, qty, dangling) ELSE <<>>) :
        form \in BOOLEAN, table \in BOOLEAN, dangling \in BOOLEAN,
        qty \in QuantityTexts,
        positions \in SUBSET ((1..MaxTableRows) \X (1..MaxTableCols)) }

GraphInit ==
    /\ pc = "start"
    /\ args \in [blocks : BlockGraphs]
    /\ returned = <<>>
    /\ RoundIdle
    /\ EnhanceIdle
    /\ PricingIdle
    /\ StoreIdle
    /\ DbIdle

\* lines = self._get_text_lines(blocks)
GetTextLines ==
    /\ pc = "start"
    /\ returned' = _get_text_lines(args.blocks)
    /\ pc' = "lines"
    /\ UNCHANGED <<args, roundVars, enhanceVars, pricingVars, storeVars, dbVars>>

\* key_values = self._extract_key_values(blocks)
ExtractKeyValues ==
    /\ pc = "start"
    /\ returned' = _extract_key_values(args.blocks)
    /\ pc' = "key_values"
    /\ UNCHANGED <<args, roundVars, enhanceVars, pricingVars, storeVars, dbVars>>

\* tables = self._extract_tables(blocks)
ExtractTables ==
    /\ pc = "start"
    /\ returned' = _extract_tables(args.blocks)
    /\ pc' = "tables"
    /\ UNCHANGED <<args, roundVars, enhanceVars, pricingVars, storeVars, dbVars>>

\* extracted_data = self._extract_invoice_data(response)
ExtractInvoiceData ==
    /\ pc = "start"
    /\ returned' = _extract_invoice_data(args.blocks)
    /\ pc' = "data"
    /\ UNCHANGED <<args, roundVars, enhanceVars, pricingVars, storeVars, dbVars>>

GraphNext == GetTextLines \/ ExtractKeyValues \/ ExtractTables \/ ExtractInvoiceData

SpecGraph == GraphInit /\ [][GraphNext]_vars

(***************************************************************************)
(* SpecItems: one call of _extract_line_items(tables, lines).  The tables  *)
(* have a header row and product rows made of leading text cells followed  *)
(* by the quantity, price and subtotal cells.                              *)
(***************************************************************************)
LeadingCells ==
    { <<<<"B", "O", "T", "A", " ", "(", "X", "7", ")">>>>, <<<<"1">>, <<"B", "O", "T", "A">>>>, <<<<"1", " ", "0", "4", "9", " ", "(", "D", "A", "M", "A", ")">>, <<"C", "H", "A", "N", "C", "L", "A", " ", "D", "A", "M", "A">>>>,
      <<<<>>>>, <<>>, <<<<"R", "E", "F", ":", " ", "A", "-", "7", " ", "P", "A", "R">>>>, <<<<"7">>, <<>>>>, <<<<"A", "B", "C", "-", "1", "2", "3", " ", "K", "G">>>>,
      <<<<"a", "b">>>>, <<<<"0">>, <<"M", "E", "D", "I", "A", " ", "1", "2", " ", "G", "R", "S">>>>, <<<<" ", "C", "A", "J", "A", " ", " ", "r", "o", "j", "a", " ">>>>,
      <<<<"3">>, <<"T", "E", "L", "A">>, <<"2", " ", "M", "T">>>> }

QuantityCells == {<<"2">>, <<"-", "5">>, <<"0">>, <<"x">>, <<"1", ".", "0", "0", "0">>, <<>>}

PriceCells == {<<"2", "0">>, <<"-", "2", "0">>, <<"0">>, <<"$", " ", "1", ".", "2", "3", "4", ",", "5", "0">>}

SubtotalCells == {<<"4", "0">>, <<"x">>}

ProductRows ==
    { cells \o <<qty, unit_price, subtotal>> :
        cells \in LeadingCells, qty \in QuantityCells, unit_price \in PriceCells,
        subtotal \in SubtotalCells }

HeaderRow == <<<<"R", "E", "F">>, <<"D", "E", "S", "C", "R", "I", "P", "C", "I", "O", "N">>, <<"C", "A", "N", "T">>, <<"V", "A", "L", "O", "R">>, <<"T", "O", "T", "A", "L">>>>

PlainRow == <<<<"B", "O", "T", "A">>, <<"2">>, <<"2", "0">>, <<"4", "0">>>>

\* one product row under the header; a second table of more or fewer rows
ItemTables ==
    { <<>> } \cup
    { <<TableOf(<<HeaderRow, row>>)>> : row \in ProductRows } \cup
    { <<TableOf(<<HeaderRow, row>>), TableOf(<<HeaderRow, PlainRow, row>>)>> :
        row \in {cells \o <<<<"-", "5">>, <<"2", "0">>, <<"x">>>> : cells \in LeadingCells} } \cup
    { <<TableOf(<<HeaderRow, PlainRow>>), TableOf(<<HeaderRow, row>>)>> :
        row \in {cells \o <<<<"2">>, <<"-", "2", "0">>, <<"4", "0">>>> : cells \in LeadingCells} }

ItemsInit ==
    /\ pc = "start"
    /\ args \in [tables : ItemTables, lines : {<<>>, <<<<"B", "O", "T", "A", " ", "2", " ", "2", "0", " ", "4", "0">>>>}]
    /\ returned = <<>>
    /\ RoundIdle
    /\ EnhanceIdle
    /\ PricingIdle
    /\ StoreIdle
    /\ DbIdle

\* self._extract_line_items(tables, lines)
ExtractLineItems ==
    /\ pc = "start"
    /\ returned' = _extract_line_items(args.tables, args.lines)
    /\ pc' = "items"
    /\ UNCHANGED <<args, roundVars, enhanceVars, pricingVars, storeVars, dbVars>>

\* one call of _parse_colombian_invoice_line, as the loop over the rows of a
\* table makes it
ParseInvoiceLine(row, row_index) ==
    /\ pc = "start"
    /\ returned' = [row |-> row, row_index |-> row_index,
                    item |-> _parse_colombian_invoice_line(row, row_index)]
    /\ pc' = "line"
    /\ UNCHANGED <<args, roundVars, enhanceVars, pricingVars, storeVars, dbVars>>

ItemsNext ==
    \/ ExtractLineItems
    \/ \E t \in DOMAIN args.tables : \E i \in DOMAIN args.tables[t].rows :
          ParseInvoiceLine(args.tables[t].rows[i], i - 1)

SpecItems == ItemsInit /\ [][ItemsNext]_vars

(***************************************************************************)
(* SpecStore: calls of the invoice service by the tenants, in any order.   *)
(* upload_and_process_invoice awaits asyncio.sleep(2) half-way, so other   *)
(* calls run between its two halves.  last_call records the call just      *)
(* made: its arguments, what it returned, and the stored invoices it       *)
(* returned, listed, replaced or deleted.                                  *)
(***************************************************************************)
Tenants == {"tenant-a", "tenant-b"}

InvoiceIds == {"invoice-a", "invoice-b"}

Call(op, tenant_id, invoice_id, result, touched) ==
    [op |-> op, tenant_id |-> tenant_id, invoice_id |-> invoice_id,
     result |-> result, touched |-> touched]

StoreInit ==
    /\ pc = "serving"
    /\ processed_invoices = <<>>
    /\ sleeping = {}
    /\ uploads = 0
    /\ last_call = <<>>
    /\ RoundIdle
    /\ EnhanceIdle
    /\ PricingIdle
    /\ CallIdle
    /\ DbIdle

\* upload_and_process_invoice up to the await of asyncio.sleep: the record
\* is stored under invoice_id and marked PROCESSING
UploadStart(tenant_id, invoice_id) ==
    /\ uploads < MaxUploads
    /\ uploads' = uploads + 1
    /\ processed_invoices' =
          MarkProcessing(Put(processed_invoices, invoice_id,
                             ProcessedInvoice(invoice_id, tenant_id, uploads + 1)),
                         invoice_id)
    /\ sleeping' = sleeping \cup
          {[tenant_id |-> tenant_id, invoice_id |-> invoice_id, upload |-> uploads + 1]}
    /\ last_call' = Call("upload", tenant_id, invoice_id, <<>>,
                         {processed_invoices[i] : i \in DOMAIN processed_invoices \cap {invoice_id}})
    /\ UNCHANGED <<pc, roundVars, enhanceVars, pricingVars, callVars, dbVars>>

\* the rest of upload_and_process_invoice, after the sleep: whatever record
\* is stored under invoice_id is completed, and the upload returns
UploadFinish(upload) ==
    /\ upload \in sleeping
    /\ sleeping' = sleeping \ {upload}
    /\ processed_invoices' = MarkCompleted(processed_invoices, upload.invoice_id)
    /\ last_call' = Call("uploaded", upload.tenant_id, upload.invoice_id,
                         [invoice_id |-> upload.invoice_id, tenant_id |-> upload.tenant_id,
                          status |-> "uploaded"], {})
    /\ UNCHANGED <<pc, uploads, roundVars, enhanceVars, pricingVars, callVars, dbVars>>

GetInvoiceStatus(tenant_id, invoice_id) ==
    /\ last_call' = Call("get_invoice_status", tenant_id, invoice_id,
                         get_invoice_status(processed_invoices, invoice_id, tenant_id),
                         Range(get_invoice_status(processed_invoices, invoice_id, tenant_id)))
    /\ UNCHANGED <<pc, processed_invoices, sleeping, uploads, roundVars, enhanceVars,
                   pricingVars, callVars, dbVars>>

GetInvoiceData(tenant_id, invoice_id) ==
    /\ last_call' = Call("get_invoice_data", tenant_id, invoice_id,
                         get_invoice_data(processed_invoices, invoice_id, tenant_id),
                         IF get_invoice_data(processed_invoices, invoice_id, tenant_id) # <<>>
                         THEN {processed_invoices[invoice_id]} ELSE {})
    /\ UNCHANGED <<pc, processed_invoices, sleeping, uploads, roundVars, enhanceVars,
                   pricingVars, callVars, dbVars>>

ListTenantInvoices(tenant_id, limit, offset, status) ==
    /\ last_call' = Call("list_tenant_invoices", tenant_id, <<limit, offset, status>>,
                         list_tenant_invoices(processed_invoices, tenant_id, limit, offset, status),
                         Range(list_tenant_invoices(processed_invoices, tenant_id, limit,
                                                    offset, status)))
    /\ UNCHANGED <<pc, processed_invoices, sleeping, uploads, roundVars, enhanceVars,
                   pricingVars, callVars, dbVars>>

DeleteInvoice(tenant_id, invoice_id) ==
    /\ processed_invoices' =
          IF Deletes(processed_invoices, invoice_id, tenant_id)
          THEN Without(processed_invoices, invoice_id) ELSE processed_invoices
    /\ last_call' = Call("delete_invoice", tenant_id, invoice_id,
                         Deletes(processed_invoices, invoice_id, tenant_id),
                         IF Deletes(processed_invoices, invoice_id, tenant_id)
                         THEN {processed_invoices[invoice_id]} ELSE {})
    /\ UNCHANGED <<pc, sleeping, uploads, roundVars, enhanceVars, pricingVars, callVars, dbVars>>

StoreNext ==
    \/ \E t \in Tenants, i \in InvoiceIds : UploadStart(t, i)
    \/ \E u \in sleeping : UploadFinish(u)
    \/ \E t \in Tenants, i \in InvoiceIds : GetInvoiceStatus(t, i)
    \/ \E t \in Tenants, i \in InvoiceIds : GetInvoiceData(t, i)
    \/ \E t \in Tenants, limit \in {1, 10}, offset \in {0, 1}, status \in {"", "completed"} :
          ListTenantInvoices(t, limit, offset, status)
    \/ \E t \in Tenants, i \in InvoiceIds : DeleteInvoice(t, i)

SpecStore == StoreInit /\ [][StoreNext]_vars

(***************************************************************************)
(* SpecDb: calls of the database-backed invoice service by the tenants,    *)
(* and the background tasks the uploads create, in any order.  A handler   *)
(* is one step where it makes one transaction; upload_and_process_invoice  *)
(* is two steps, its SELECT of the tenant and its COMMIT, and the task is  *)
(* two steps, around its await of analyze_invoice.  Every upload has a new *)
(* invoice id (the router passes str(uuid.uuid4())), here the next number. *)
(* upload_and_process_photo makes the same two transactions as the upload  *)
(* and is not a step of its own.                                           *)
(***************************************************************************)
DbCall(op, tenant_id, invoice_id, raised, result) ==
    [op |-> op, tenant_id |-> tenant_id, invoice_id |-> invoice_id,
     raised |-> raised, result |-> result]

\* what analyze_invoice does: it raises, or extracts these line items
OcrResults ==
    { [raised |-> TRUE, line_items |-> <<>>],
      [raised |-> FALSE,
       line_items |-> << [description |-> "BOTA", quantity |-> <<2>>,
                          unit_price |-> <<20>>, subtotal |-> <<40>>],
                         [description |-> "", quantity |-> <<1>>,
                          unit_price |-> <<5>>, subtotal |-> <<5>>] >>],
      [raised |-> FALSE,
       line_items |-> << [description |-> "BOTA", quantity |-> <<2>>,
                          unit_price |-> <<20>>, subtotal |-> <<>>] >>] }

\* pricing_data['line_items'] of a call: no entry, or one entry
PricingRequests ==
    { <<>> } \cup
    { <<[line_item_id |-> id, sale_price |-> sale_price]>> :
        id \in {<<>>} \cup DOMAIN db.line_items, sale_price \in {0, 30} }

DbInit ==
    /\ pc = "serving"
    /\ db = [tenants |-> [t \in {"tenant-a"} |->
                            [invoices_processed_month |-> 0,
                             max_invoices_month |-> PlanLimit]],
             invoices |-> <<>>, line_items |-> <<>>, billing |-> {}]
    /\ in_flight = {}
    /\ tasks = <<>>
    /\ issued = 0
    /\ db_call = <<>>
    /\ RoundIdle
    /\ EnhanceIdle
    /\ PricingIdle
    /\ CallIdle
    /\ StoreIdle

\* upload_and_process_invoice up to its commit: the tenant is selected or
\* made, and the monthly limit is checked on the row just read
UploadSelect(tenant_id, invoice_id) ==
    /\ issued < MaxInvoices
    /\ invoice_id = issued + 1
    /\ issued' = invoice_id
    /\ IF LimitReached(IF tenant_id \in DOMAIN db.tenants
                       THEN db.tenants[tenant_id] ELSE NewTenant)
       THEN /\ in_flight' = in_flight
            /\ db_call' = DbCall("upload", tenant_id, invoice_id, TRUE, "")
       ELSE /\ in_flight' = in_flight \cup
                  {[tenant_id |-> tenant_id, invoice_id |-> invoice_id,
                    created |-> tenant_id \notin DOMAIN db.tenants]}
            /\ db_call' = DbCall("upload_select", tenant_id, invoice_id, FALSE, "")
    /\ UNCHANGED <<pc, db, tasks, roundVars, enhanceVars, pricingVars, callVars, storeVars>>

\* the rest of upload_and_process_invoice: the commit of the invoice row,
\* the background task and the return; a refused commit is rolled back and
\* the exception leaves the call
UploadCommit(upload) ==
    /\ upload \in in_flight
    /\ in_flight' = in_flight \ {upload}
    /\ IF UploadRefused(db, upload)
       THEN /\ UNCHANGED <<db, tasks>>
            /\ db_call' = DbCall("upload", upload.tenant_id, upload.invoice_id, TRUE, "")
       ELSE /\ db' = UploadCommitted(db, upload)
            /\ tasks' = Put(tasks, upload.invoice_id, "created")
            /\ db_call' = DbCall("upload", upload.tenant_id, upload.invoice_id, FALSE,
                                 "uploaded")
    /\ UNCHANGED <<pc, issued, roundVars, enhanceVars, pricingVars, callVars, storeVars>>

\* _process_invoice_with_textract up to its await of analyze_invoice
StartProcessing(invoice_id) ==
    /\ invoice_id \in DOMAIN tasks
    /\ tasks[invoice_id] = "created"
    /\ IF invoice_id \in DOMAIN db.invoices
       THEN /\ db' = [db EXCEPT !.invoices[invoice_id].status = "processing"]
            /\ tasks' = [tasks EXCEPT ![invoice_id] = "analysing"]
       ELSE /\ db' = db
            /\ tasks' = [i \in DOMAIN tasks \ {invoice_id} |-> tasks[i]]
    /\ db_call' = DbCall("start_processing", "", invoice_id, FALSE, "")
    /\ UNCHANGED <<pc, in_flight, issued, roundVars, enhanceVars, pricingVars, callVars,
                   storeVars>>

\* the rest of _process_invoice_with_textract, from the return or the
\* exception of analyze_invoice to the last commit
FinishProcessing(invoice_id, ocr) ==
    /\ invoice_id \in DOMAIN tasks
    /\ tasks[invoice_id] = "analysing"
    /\ db' = Processed(db, invoice_id, SelectSeq(ExtractedItems(ocr), Described))
    /\ tasks' = [i \in DOMAIN tasks \ {invoice_id} |-> tasks[i]]
    /\ db_call' = DbCall("finish_processing", "", invoice_id, FALSE, ocr)
    /\ UNCHANGED <<pc, in_flight, issued, roundVars, enhanceVars, pricingVars, callVars,
                   storeVars>>

DbDeleteInvoice(tenant_id, invoice_id) ==
    /\ db' = IF DeletesRow(db, invoice_id, tenant_id) THEN DeletedRow(db, invoice_id) ELSE db
    /\ db_call' = DbCall("delete_invoice", tenant_id, invoice_id, FALSE,
                         DeletesRow(db, invoice_id, tenant_id))
    /\ UNCHANGED <<pc, in_flight, tasks, issued, roundVars, enhanceVars, pricingVars,
                   callVars, storeVars>>

\* the outcome of a pricing call written down
PricingCalled(op, tenant_id, invoice_id, outcome, result) ==
    /\ db' = outcome.rows
    /\ db_call' = DbCall(op, tenant_id, invoice_id, outcome.raised, result)

SetInvoicePricing(tenant_id, invoice_id, line_items_data) ==
    /\ PricingCalled("set_invoice_pricing", tenant_id, invoice_id,
                     set_invoice_pricing(db, invoice_id, tenant_id, line_items_data),
                     set_invoice_pricing(db, invoice_id, tenant_id, line_items_data).updated_items)
    /\ UNCHANGED <<pc, in_flight, tasks, issued, roundVars, enhanceVars, pricingVars,
                   callVars, storeVars>>

ConfirmInvoicePricing(tenant_id, invoice_id) ==
    /\ PricingCalled("confirm_invoice_pricing", tenant_id, invoice_id,
                     confirm_invoice_pricing(db, invoice_id, tenant_id),
                     confirm_invoice_pricing(db, invoice_id, tenant_id).status)
    /\ UNCHANGED <<pc, in_flight, tasks, issued, roundVars, enhanceVars, pricingVars,
                   callVars, storeVars>>

DbNext ==
    \/ \E t \in Tenants : UploadSelect(t, issued + 1)
    \/ \E upload \in in_flight : UploadCommit(upload)
    \/ \E i \in DOMAIN tasks : StartProcessing(i)
    \/ \E i \in DOMAIN tasks, ocr \in OcrResults : FinishProcessing(i, ocr)
    \/ \E t \in Tenants, i \in DOMAIN db.invoices : DbDeleteInvoice(t, i)
    \/ \E t \in Tenants, i \in DOMAIN db.invoices, data \in PricingRequests :
          SetInvoicePricing(t, i, data)
    \/ \E t \in Tenants, i \in DOMAIN db.invoices : ConfirmInvoicePricing(t, i)

SpecDb == DbInit /\ [][DbNext]_vars

\* The event loop runs every task that asyncio.create_task made, and
\* analyze_invoice returns or raises: a task step that stays possible is
\* taken.  Nothing is assumed of the callers.
SpecDbFair ==
    /\ SpecDb
    /\ \A i \in 1..MaxInvoices :
          /\ WF_vars(StartProcessing(i))
          /\ WF_vars(\E ocr \in OcrResults : FinishProcessing(i, ocr))

(***************************************************************************)
(* SpecRound: one call of round_price_colombian on an integer price.       *)
(***************************************************************************)
RoundInit ==
    /\ pc = "start"
    /\ price \in 0..MaxPrice
    /\ rounded = -1
    /\ EnhanceIdle
    /\ PricingIdle
    /\ CallIdle
    /\ StoreIdle
    /\ DbIdle

RoundPrice ==
    /\ pc = "start"
    /\ rounded' = round_price_colombian(price, 1)
    /\ pc' = "done"
    /\ UNCHANGED <<price, enhanceVars, pricingVars, callVars, storeVars, dbVars>>

RoundNext == RoundPrice

SpecRound == RoundInit /\ [][RoundNext]_vars

DocumentedRounding ==
    { <<10800, 11000>>, <<15300, 16000>>, <<9800, 10000>>, <<1300, 1500>>,
      <<1200, 1000>>, <<450, 500>>, <<180, 200>>, <<80, 100>>, <<130, 150>> }

\* C2: round_price_colombian returns the documented value on every row of the
\* documented table (10800 -> 11000, ..., 450 -> 500, ..., 130 -> 150).
C2_DocumentedTable ==
    pc = "done" =>
        \A row \in DocumentedRounding : price = row[1] => rounded = row[2]

(***************************************************************************)
(* Claims about the Data Enhancer (SpecEnhance).                           *)
(***************************************************************************)
\* the first pass has returned a result
Enhanced == pc \in {"enhanced", "again"} /\ ~enhanced.raised

RawItems == Get(raw_data, "line_items", <<>>)

EnhancedItems == Get(enhanced.data, "line_items", <<>>)

Field(item, key) == Get(item, key, Omit)

IsNumber(value) == value.k = "num"

\* the item goes through the four enhancement steps without an exception:
\* its product code and unit are strings (or product_code is missing)
Completes(item) ==
    /\ Get(item, "product_code", Str(<<>>)).k = "str"
    /\ Get(item, "unit_measure", Str(<<>>)).k = "str"

\* a row the unit-conversion claims speak about: a unit string, a non-zero
\* quantity and a unit price
Convertible(item) ==
    /\ Field(item, "unit_measure").k = "str"
    /\ IsNumber(Field(item, "quantity")) /\ Field(item, "quantity").n # 0
    /\ IsNumber(Field(item, "unit_price"))

ConvertedAs(raw, out, multiplier, unit) ==
    /\ Field(out, "unit_measure") = Str(<<"P", "C", "S">>)
    /\ Field(out, "quantity") = Num(multiplier * raw.quantity.n, raw.quantity.d)
    /\ Field(out, "unit_price") = Num(raw.unit_price.n, multiplier * raw.unit_price.d)
    /\ Field(out, "unit_multiplier") = IntV(multiplier)
    /\ Field(out, "original_quantity") = raw.quantity
    /\ Field(out, "original_unit") = Str(unit)

Unconverted(raw, out) ==
    /\ Field(out, "unit_measure") = raw.unit_measure
    /\ Field(out, "quantity") = raw.quantity
    /\ Field(out, "unit_price") = raw.unit_price

\* the table as the claim words it: DOC, PAR/PARES, GRS/GRUESA
StatedMultiplier(unit) ==
    CASE unit = <<"D", "O", "C">> -> 12
      [] unit \in {<<"P", "A", "R">>, <<"P", "A", "R", "E", "S">>} -> 2
      [] unit \in {<<"G", "R", "S">>, <<"G", "R", "U", "E", "S", "A">>} -> 144
      [] OTHER -> 1

\* the table with DOCENA
FullMultiplier(unit) ==
    IF unit = <<"D", "O", "C", "E", "N", "A">> THEN 12 ELSE StatedMultiplier(unit)

\* C3 as stated: every row whose unit_measure is exactly DOC, PAR, PARES,
\* GRS or GRUESA, with a non-zero quantity and a unit price, comes out in
\* PCS with quantity multiplied and price divided by 12, 2 or 144; a row
\* with any other unit keeps quantity, price and unit, with unit_multiplier 1.
C3_StatedConversion ==
    Enhanced =>
        \A i \in DOMAIN RawItems :
            LET raw == RawItems[i]
                out == EnhancedItems[i]
                unit == raw.unit_measure.s
            IN  Convertible(raw) =>
                    IF StatedMultiplier(unit) # 1
                    THEN ConvertedAs(raw, out, StatedMultiplier(unit), unit)
                    ELSE /\ Unconverted(raw, out)
                         /\ Field(out, "unit_multiplier") = IntV(1)

\* C3: for every row whose enhancement completes (product_code is a string
\* or missing), with a numeric non-zero quantity q and a numeric unit price
\* p, and whose unit_measure, trimmed and upper-cased, is U: if U is DOC or
\* DOCENA (12), PAR or PARES (2), GRS or GRUESA (144) the row comes out with
\* unit_measure PCS, quantity m*q, unit_price p/m, unit_multiplier m,
\* original_quantity q and original_unit U; for every other non-empty U
\* quantity, unit_price and unit_measure are unchanged and unit_multiplier
\* is 1; for an empty U they are unchanged and no unit_multiplier is set.
C3_UnitConversion ==
    Enhanced =>
        \A i \in DOMAIN RawItems :
            LET raw == RawItems[i]
                out == EnhancedItems[i]
                unit == Upper(Strip(raw.unit_measure.s))
            IN  Convertible(raw) /\ Completes(raw) =>
                    IF FullMultiplier(unit) # 1
                    THEN ConvertedAs(raw, out, FullMultiplier(unit), unit)
                    ELSE /\ Unconverted(raw, out)
                         /\ IF unit # <<>>
                            THEN Field(out, "unit_multiplier") = IntV(1)
                            ELSE ~Has(out, "unit_multiplier")

\* two DOCENA at 20 have become 24 PCS at 5/3
C3_Witness ==
    /\ pc = "enhanced" /\ ~enhanced.raised
    /\ Len(RawItems) = 1
    /\ Field(RawItems[1], "unit_measure") = Str(<<"D", "O", "C", "E", "N", "A">>)
    /\ Field(RawItems[1], "quantity") = Num(2, 1)
    /\ Field(EnhancedItems[1], "quantity") = Num(24, 1)
    /\ Field(EnhancedItems[1], "unit_price") = Num(5, 3)
    /\ Field(EnhancedItems[1], "unit_measure") = Str(<<"P", "C", "S">>)

Warnings == Range(enhanced.data["enhancement_warnings"])

RecalculationWarned(i) == Warning(i, "subtotal recalculado") \in Warnings

RecalculatedFlag(item) == Field(item, "_subtotal_recalculated") = TrueV

\* |a - b| is more than 5% of |base|
GapOver5PctOf(base, a, b) ==
    100 * Abs(a.n * b.d - b.n * a.d) * base.d > 5 * Abs(base.n) * a.d * b.d

Overwritten(out, i, calculated) ==
    /\ Field(out, "subtotal") = calculated
    /\ RecalculatedFlag(out)
    /\ RecalculationWarned(i)

Kept(out, i, stated) ==
    /\ Field(out, "subtotal") = stated
    /\ ~RecalculatedFlag(out)
    /\ ~RecalculationWarned(i)

C5_PerItemIsolation ==
    pc \in {"enhanced", "again"} /\ Has(raw_data, "line_items") =>
        LET result == _enhance_line_items(RawItems)
        IN  /\ ~result.raised
            /\ Len(result.items) = Len(RawItems)
            /\ \A i \in DOMAIN RawItems :
                  LET steps == EnhanceSteps(RawItems[i], i)
                  IN  result.items[i] =
                          IF steps.raised THEN RawItems[i] ELSE steps.item
            /\ ~enhanced.raised => EnhancedItems = result.items

\* a row whose unit is null, after its number was split off the code, comes
\* back untouched next to a dozen converted to pieces
C5_Witness ==
    /\ pc = "enhanced" /\ ~enhanced.raised
    /\ Len(RawItems) = 2
    /\ Field(RawItems[1], "unit_measure") = NoneV
    /\ EnhanceSteps(RawItems[1], 1).raised
    /\ EnhanceSteps(RawItems[1], 1).item # RawItems[1]
    /\ EnhancedItems[1] = RawItems[1]
    /\ Field(RawItems[2], "unit_measure") = Str(<<"D", "O", "C">>)
    /\ Field(EnhancedItems[2], "unit_measure") = Str(<<"P", "C", "S">>)

\* C6: whenever the enhancement of row i raised, enhancement_warnings holds
\* an entry for row i.
C6_FailureRecorded ==
    Enhanced =>
        \A i \in DOMAIN RawItems :
            EnhanceSteps(RawItems[i], i).raised =>
                \E w \in Warnings : w.line = i

\* the first pass multiplied the quantity of the row by its unit's multiplier
ConvertedByFirstPass(i) ==
    /\ Field(RawItems[i], "unit_measure").k = "str"
    /\ IsNumber(Field(RawItems[i], "quantity"))
    /\ LET multiplier == FullMultiplier(Upper(Strip(RawItems[i].unit_measure.s)))
       IN  /\ multiplier # 1
           /\ Field(EnhancedItems[i], "quantity")
                  = NumMul(RawItems[i].quantity, Num(multiplier, 1))
           /\ RawItems[i].quantity.n # 0

\* C10: a second pass over the result of the first leaves quantity,
\* unit_price, unit_measure and subtotal of every row the first pass
\* converted to PCS as the first pass returned them.
C10_ConversionIdempotent ==
    pc = "again" /\ ~enhanced2.raised =>
        \A i \in DOMAIN RawItems :
            ConvertedByFirstPass(i) =>
                \A key \in {"quantity", "unit_price", "unit_measure", "subtotal"} :
                    Field(enhanced2.data["line_items"][i], key)
                        = Field(EnhancedItems[i], key)

\* one DOC at 105000 is 12 PCS at 8750 after the first and the second pass
C10_Witness ==
    /\ pc = "again" /\ ~enhanced2.raised
    /\ Len(RawItems) = 1
    /\ Field(RawItems[1], "quantity") = Num(1, 1)
    /\ Field(RawItems[1], "unit_price") = Num(105000, 1)
    /\ ConvertedByFirstPass(1)
    /\ Field(EnhancedItems[1], "quantity") = Num(12, 1)
    /\ Field(enhanced2.data["line_items"][1], "quantity") = Num(12, 1)
    /\ Field(enhanced2.data["line_items"][1], "unit_price") = Num(8750, 1)

\* C12: after enhancement of a line-item list, every item's item_number is
\* its 1-based position in the list, whatever item_number the item carried on
\* input and also when its product code is empty.
C12_ItemNumberIsPosition ==
    Enhanced =>
        \A i \in DOMAIN EnhancedItems :
            Completes(RawItems[i]) =>
                Field(EnhancedItems[i], "item_number") = IntV(i)

\* the units that stand for more than one piece
NonAtomicUnits ==
    { Str(<<"D", "O", "C">>), Str(<<"D", "O", "C", "E", "N", "A">>), Str(<<"P", "A", "R">>), Str(<<"P", "A", "R", "E", "S">>),
      Str(<<"G", "R", "S">>), Str(<<"G", "R", "U", "E", "S", "A">>) }

\* quantity = original_quantity * unit_multiplier, and unit_price = (input
\* unit price) / unit_multiplier when the input has a unit price
MultipliedBy(raw, out, multiplier) ==
    /\ IsNumber(Field(out, "original_quantity"))
    /\ Field(out, "quantity")
         = Num(multiplier * out.original_quantity.n, out.original_quantity.d)
    /\ (IsNumber(Field(raw, "unit_price")) /\ raw.unit_price.n # 0) =>
          Field(out, "unit_price") = Num(raw.unit_price.n, multiplier * raw.unit_price.d)

ConversionInvariant(raw, out) ==
    /\ Field(out, "unit_measure") \notin NonAtomicUnits
    /\ (Has(out, "unit_multiplier") /\ out.unit_multiplier.n > 1) =>
          MultipliedBy(raw, out, out.unit_multiplier.n)

WellFormed(item) ==
    /\ Field(item, "description").k = "str" /\ Field(item, "description").s # <<>>
    /\ IsNumber(Field(item, "quantity")) /\ item.quantity.n > 0
    /\ IsNumber(Field(item, "unit_price")) /\ item.unit_price.n > 0
    /\ Field(item, "subtotal") = NumMul(item.quantity, item.unit_price)
    /\ Field(item, "unit_measure") \in
          {Str(<<"D", "O", "C">>), Str(<<"P", "A", "R">>), Str(<<"U", "N", "D">>)}

WellFormedInvoice ==
    /\ RawItems # <<>>
    /\ \A i \in DOMAIN RawItems : WellFormed(RawItems[i])
    /\ Has(raw_data, "totals") /\ Has(raw_data.totals, "total")
    /\ IsNumber(raw_data.totals.total) /\ raw_data.totals.total.n > 0

\* DOC -> PCS x12, PAR -> PCS x2, UND -> UND x1
CanonicalUnit(raw, out) ==
    LET m == StatedMultiplier(raw.unit_measure.s)
    IN /\ Field(out, "unit_measure") = (IF m = 1 THEN raw.unit_measure ELSE Str(PCS))
       /\ Field(out, "unit_multiplier") = IntV(m)

EndToEnd ==
    /\ Len(EnhancedItems) = Len(RawItems)
    /\ \A i \in DOMAIN RawItems : CanonicalUnit(RawItems[i], EnhancedItems[i])
    /\ enhanced.data["enhancement_warnings"] = <<>>

\* the fields an extracted row carries
ExtractedFields ==
    {"item_number", "product_code", "description", "quantity", "unit_measure",
     "unit_price", "subtotal"}

\* a row of extracted fields whose four enhancement steps complete and whose
\* description is not emptied by the cleaning
Enhanceable(item) ==
    /\ DOMAIN item \subseteq ExtractedFields
    /\ Completes(item)
    /\ SelectSeq(CollapseWs(Strip(item.description.s)), IsDescriptionChar) # <<>>

C23_TotalWarning ==
    (/\ pc = "enhanced" /\ ~enhanced.raised
     /\ Has(enhanced.data, "totals") /\ Has(enhanced.data.totals, "total")
     /\ IsNumber(enhanced.data.totals.total)) =>
        (enhanced.data.totals.total.n <= 0 <=> Warning(0, "total invalido") \in Warnings)


(***************************************************************************)
(* Claims about recommend_sale_price.                                      *)
(***************************************************************************)
Answered == pc = "done" /\ response # <<>>

\* the call returned the dict of the try block, with its list of candidates
Ranked == Answered /\ ~response.raised /\ response.all_recommendations # <<>>

Candidates == response.all_recommendations

\* the call returned the dict of _fallback_pricing
IsFallbackOf(req) ==
    /\ ~response.raised
    /\ response.method = "fallback"
    /\ response.confidence = 50
    /\ IsNumeric(_get_quantity_factor(req.quantity))
    /\ response.recommended_price.n
         = response.recommended_price.d
             * round_price_colombian(
                 req.cost_price.n * 3 * _get_quantity_factor(req.quantity).n,
                 req.cost_price.d * 2 * _get_quantity_factor(req.quantity).d)

\* C7: recommend_sale_price never raises to its caller: for every positive
\* Decimal cost price, whatever the quantity, description, supplier and
\* history, the call returns, and when a step of the try block fails it
\* returns the fallback result: method 'fallback', confidence 0.5 and
\* price = round_price_colombian(cost * 1.5 * quantity_factor).
C7_NeverRaises ==
    (/\ Answered
     /\ request.cost_price.t = "Decimal" /\ request.cost_price.n > 0
     /\ request.quantity.t = "Decimal" /\ request.quantity.n > 0)
        => /\ ~response.raised
           /\ TryRecommend(request).raised => IsFallbackOf(request)

\* price = round_price_colombian(price)
IsColombianRounded(value) ==
    value.n = value.d * round_price_colombian(value.n, value.d)

\* the reported margin is ((price - cost) / cost) * 100 on the returned
\* price, to the two decimals the code keeps
MarginOfReturnedPrice(candidate, cost_price) ==
    100 * candidate.margin.n
        = candidate.margin.d
            * RoundHalfEven(10000 * (candidate.price.n * cost_price.d
                                       - cost_price.n * candidate.price.d),
                            candidate.price.d * cost_price.n)

\* C8: every candidate price of the returned list, and the selected best
\* price, is Colombian-rounded, the candidates clamped to the 20% or 200%
\* bound included, and each reported margin is ((price - cost) / cost) * 100
\* on the returned price.
C8_AllRounded ==
    Ranked =>
        /\ IsColombianRounded(response.recommended_price)
        /\ \A i \in DOMAIN Candidates :
              /\ IsColombianRounded(Candidates[i].price)
              /\ MarginOfReturnedPrice(Candidates[i], request.cost_price)

\* bonus(margin), in tenths
Bonus(margin) ==
    IF 30 * margin.d <= margin.n /\ margin.n <= 80 * margin.d THEN 12
    ELSE IF margin.n < 30 * margin.d THEN 8
    ELSE IF margin.n > 100 * margin.d THEN 7
    ELSE 10

\* score(c) = confidence(c) * bonus(margin(c)), in thousandths
Score(candidate) == candidate.confidence * Bonus(candidate.margin)

\* C9: with score(c) = confidence(c) * bonus(margin(c)), the recommended
\* candidate has a score at least that of every other candidate, and the
\* returned list is in non-increasing order of score with the recommended
\* candidate first.
C9_Selection ==
    Ranked =>
        /\ response.method = Candidates[1].method
        /\ response.confidence = Candidates[1].confidence
        /\ response.recommended_price = Candidates[1].price
        /\ response.margin_percentage = Candidates[1].margin
        /\ \A i \in DOMAIN Candidates : Score(Candidates[1]) >= Score(Candidates[i])
        /\ \A i, j \in DOMAIN Candidates :
              i < j => Score(Candidates[i]) >= Score(Candidates[j])

\* the sort moved a candidate generated later in front of the category
\* candidate, and the scores of the list are not all equal
C9_Witness ==
    /\ Ranked
    /\ response.method = "conservative"
    /\ \E i \in DOMAIN Candidates :
          /\ Candidates[i].method = "ml_category"
          /\ Score(Candidates[i]) < Score(Candidates[1])

(***************************************************************************)
(* Claims about _separate_item_and_ref (SpecSeparate).                     *)
(***************************************************************************)
\* the product code of the call, surrounding whitespace aside
GivenCode == Strip(args.item["product_code"].s)

LeadingDigits == PrefixLen(GivenCode, DigitChars)

LeadingNumber == DigitsToInt(SubSeq(GivenCode, 1, LeadingDigits))

\* what follows the leading number: "." or ")" if any, one space, the rest
AfterNumber == Drop(GivenCode, LeadingDigits)

AfterPunctuation ==
    IF AfterNumber # <<>> /\ AfterNumber[1] \in {".", ")"}
    THEN Tail(AfterNumber) ELSE AfterNumber

\* the code reads '<n> <rest>', '<n>. <rest>' or '<n>) <rest>'
HasStatedForm ==
    /\ LeadingDigits >= 1
    /\ Len(AfterPunctuation) >= 2
    /\ AfterPunctuation[1] = " "
    /\ AfterPunctuation[2] \notin SpaceChars

StatedRest == Tail(AfterPunctuation)

Separating ==
    /\ pc = "done"
    /\ "product_code" \in DOMAIN args.item
    /\ args.item["product_code"].k = "str"

\* C11: for every row position n and product code '<n> <rest>', '<n>. <rest>'
\* or '<n>) <rest>' whose leading number equals n, _separate_item_and_ref sets
\* item_number = n and product_code = <rest>; when the leading number differs
\* from n, or the code has no leading number, product_code is left unchanged.
C11_Separation ==
    Separating =>
        /\ (HasStatedForm /\ LeadingNumber = args.line_number) =>
              /\ ~returned.raised
              /\ Field(returned.item, "item_number") = IntV(args.line_number)
              /\ Field(returned.item, "product_code") = Str(StatedRest)
        /\ (LeadingDigits = 0 \/ LeadingNumber # args.line_number) =>
              /\ ~returned.raised
              /\ Field(returned.item, "product_code") = args.item["product_code"]

\* '1 049 (DAMA)' at row 1 has given item 1 and code '049 (DAMA)'
C11_Witness ==
    /\ Separating
    /\ args.line_number = 1
    /\ args.item["product_code"] = Str(<<"1", " ", "0", "4", "9", " ", "(", "D", "A", "M", "A", ")">>)
    /\ Field(returned.item, "item_number") = IntV(1)
    /\ Field(returned.item, "product_code") = Str(<<"0", "4", "9", " ", "(", "D", "A", "M", "A", ")">>)

(***************************************************************************)
(* Claims about the decimal parsers (SpecDecimal).                         *)
(***************************************************************************)
IsSeparator(c) == c \in {".", ","}

\* digits in groups, with both separators present, one separator at a time
GroupedNumber(text) ==
    /\ \A i \in DOMAIN text : text[i] \in DigitChars \/ IsSeparator(text[i])
    /\ Count(text, ".") > 0 /\ Count(text, ",") > 0
    /\ text[1] \in DigitChars /\ text[Len(text)] \in DigitChars
    /\ \A i \in 1..(Len(text) - 1) : ~(IsSeparator(text[i]) /\ IsSeparator(text[i + 1]))

\* the number read with the rightmost separator as the decimal point and
\* every other separator as a thousands separator
RightmostIsDecimalPoint(text) ==
    LET at == {i \in DOMAIN text : IsSeparator(text[i])}
        cut == CHOOSE i \in at : \A j \in at : i >= j
        whole == SelectSeq(SubSeq(text, 1, cut - 1), LAMBDA c : ~IsSeparator(c))
        frac == SubSeq(text, cut + 1, Len(text))
    IN  Num(DigitsToInt(whole \o frac), Pow10(Len(frac)))

Parsed == pc \in {"parsed", "cleaned"}

\* C19: both decimal parsers map "1.234.567,89" to 1234567.89 and "50.000"
\* to 50000, and read every number holding both '.' and ',' with the
\* rightmost separator as the decimal point and the other as a thousands
\* separator.
C19_ColombianDecimals ==
    Parsed =>
        /\ args.text = <<"1", ".", "2", "3", "4", ".", "5", "6", "7", ",", "8", "9">> => returned = Num(123456789, 100)
        /\ args.text = <<"5", "0", ".", "0", "0", "0">> => returned = Num(50000, 1)
        /\ GroupedNumber(args.text) => returned = RightmostIsDecimalPoint(args.text)

(***************************************************************************)
(* Claims about the block graph reader (SpecGraph).                        *)
(***************************************************************************)
\* the CELL blocks the i-th TABLE block of the graph names
CellsOfTable(i) ==
    ResolvedOfType(RelatedIds(SelectSeq(args.blocks, IsTable)[i].Relationships, "CHILD"),
                   BlockMap(args.blocks), "CELL")

Largest(numbers) ==
    IF numbers = {} THEN 0 ELSE CHOOSE n \in numbers : \A m \in numbers : m <= n

\* what position (r, c) of the grid is to hold
CellOrEmpty(cells, r, c) ==
    IF \E i \in DOMAIN cells : cells[i].RowIndex = r /\ cells[i].ColumnIndex = c
    THEN CellText(cells, r, c, BlockMap(args.blocks))
    ELSE <<>>

DenseGrid(table, cells) ==
    LET max_row == Largest({cells[i].RowIndex : i \in DOMAIN cells})
        max_col == Largest({cells[i].ColumnIndex : i \in DOMAIN cells})
    IN  /\ table.row_count = max_row
        /\ Len(table.rows) = max_row
        /\ \A r \in 1..max_row : Len(table.rows[r]) = max_col
        /\ \A r \in 1..max_row : \A c \in 1..max_col :
              table.rows[r][c] = CellOrEmpty(cells, r, c)

\* C15: the grid extracted for a TABLE block is dense and rectangular: its
\* row count is the largest RowIndex among its cells, every row has as many
\* cells as the largest ColumnIndex, the cell with indices (r, c) is at
\* position (r, c), and a position without a CELL block holds "".
C15_DenseGrid ==
    pc = "tables" => \A i \in DOMAIN returned : DenseGrid(returned[i], CellsOfTable(i))

IdsOf(blocks) == {blocks[i].Id : i \in DOMAIN blocks}

HasDangling(blocks) ==
    \E i \in DOMAIN blocks : \E k \in DOMAIN blocks[i].Relationships :
        \E j \in DOMAIN blocks[i].Relationships[k].Ids :
            blocks[i].Relationships[k].Ids[j] \notin IdsOf(blocks)

\* the same graph with the ids that no block carries taken out of the
\* relationships
WithoutDangling(blocks) ==
    [i \in DOMAIN blocks |->
        [blocks[i] EXCEPT !.Relationships =
            [k \in DOMAIN @ |->
                [@[k] EXCEPT !.Ids = SelectSeq(@, LAMBDA id : id \in IdsOf(blocks))]]]]

\* C16: on a graph whose CHILD or VALUE relationships name ids that no block
\* carries, _get_text_lines, _extract_key_values and _extract_tables return
\* what they return for the graph with those ids removed.
C16_DanglingSkipped ==
    /\ pc = "lines" => returned = _get_text_lines(WithoutDangling(args.blocks))
    /\ pc = "key_values" => returned = _extract_key_values(WithoutDangling(args.blocks))
    /\ pc = "tables" => returned = _extract_tables(WithoutDangling(args.blocks))

\* a table read in full, two rows of four cells, from a graph whose TABLE and
\* CELL blocks name an id that no block carries
C16_Witness ==
    /\ pc = "tables"
    /\ HasDangling(args.blocks)
    /\ Len(returned) = 1
    /\ returned[1].row_count = 2
    /\ returned[1].col_count = 4
    /\ returned[1].rows[2][1] = <<"B", "O", "T", "A", " ", "(", "X", "7", ")">>

(***************************************************************************)
(* Claims about the line-item interpreter (SpecItems).                     *)
(***************************************************************************)
IsPositive(value) == IsNumber(value) /\ value.n > 0

\* C17: every line item emitted by _extract_line_items has a non-empty
\* description, a quantity > 0 and a unit price > 0; a row whose parsed
\* quantity or price is missing, zero or negative is not emitted.
C17_EmittedArePositive ==
    pc = "items" =>
        \A i \in DOMAIN returned.items :
            /\ Field(returned.items[i], "description").k = "str"
            /\ returned.items[i].description.s # <<>>
            /\ IsPositive(Field(returned.items[i], "quantity"))
            /\ IsPositive(Field(returned.items[i], "unit_price"))

\* the cells of a row as the interpreter reads them, and how many are numeric
CleanRow(row) == [i \in DOMAIN row |-> Strip(row[i])]

NumericCells(row) == {i \in DOMAIN row : _is_numeric(CleanRow(row)[i])}

Product(quantity, unit_price) ==
    IF IsNumber(quantity) /\ IsNumber(unit_price) THEN NumMul(quantity, unit_price)
    ELSE NoneV

\* C22: for every table row with at least 4 cells of which fewer than 3 are
\* numeric, the item is built as product_code = cell 0, description = cell 1,
\* quantity = parse(cell 2), unit_price = parse(cell 3) and
\* subtotal = quantity * unit_price.
C22_FixedColumnFallback ==
    (pc = "line" /\ Len(returned.row) >= 4 /\ Cardinality(NumericCells(returned.row)) < 3) =>
        /\ returned.item.product_code = Str(CleanRow(returned.row)[1])
        /\ returned.item.description = Str(CleanRow(returned.row)[2])
        /\ returned.item.quantity = _parse_decimal(CleanRow(returned.row)[3])
        /\ returned.item.unit_price = _parse_decimal(CleanRow(returned.row)[4])
        /\ returned.item.subtotal = Product(returned.item.quantity, returned.item.unit_price)

(***************************************************************************)
(* Claims about _extract_invoice_data (SpecGraph).                         *)
(***************************************************************************)
\* the graph has no TABLE block, or its largest table yields no valid row
NoValidRow(blocks) ==
    \/ _extract_tables(blocks) = <<>>
    \/ TableItems(MainTable(_extract_tables(blocks)).rows, 0) = <<>>

\* C18: for every block graph without a TABLE block, or whose largest table
\* yields no valid row, _extract_invoice_data does not raise and returns a
\* structured result with a line-item list.
C18_DegradesWithoutRaising ==
    (pc = "data" /\ NoValidRow(args.blocks)) =>
        ~returned.raised /\ Has(returned.data, "line_items")

(***************************************************************************)
(* Claims about the invoice service (SpecStore).                           *)
(***************************************************************************)
\* C20: no call made with a tenant returns, lists, replaces or deletes an
\* invoice record that was uploaded by a different tenant, also when the
\* call is an upload with an invoice_id another tenant has used.
C20_TenantIsolation ==
    last_call # <<>> =>
        \A invoice \in last_call.touched : invoice.tenant_id = last_call.tenant_id

\* C21: once upload_and_process_invoice(tenant, id) has returned,
\* get_invoice_status(id, tenant) gives a record of that id and tenant whose
\* status is PROCESSING or COMPLETED.
C21_StatusAfterUpload ==
    (last_call # <<>> /\ last_call.op = "uploaded") =>
        LET found == get_invoice_status(processed_invoices, last_call.invoice_id,
                                        last_call.tenant_id)
        IN  /\ found # <<>>
            /\ found[1].id = last_call.invoice_id
            /\ found[1].tenant_id = last_call.tenant_id
            /\ found[1].status \in {"processing", "completed"}

\* the same claim, second part: get_invoice_data gives data only of a
\* COMPLETED record
DataOnlyWhenCompleted ==
    \A t \in Tenants, i \in InvoiceIds :
        get_invoice_data(processed_invoices, i, t) # <<>> =>
            /\ get_invoice_status(processed_invoices, i, t)[1].status = "completed"
            /\ get_invoice_data(processed_invoices, i, t) = <<"mock">>

StatusRank(status) ==
    CASE status = "uploaded" -> 0 [] status = "processing" -> 1 [] OTHER -> 2

\* the same claim, third part: the status of a record never moves backward
StatusMovesForward ==
    [][\A i \in DOMAIN processed_invoices \cap DOMAIN processed_invoices' :
          processed_invoices[i].upload_timestamp = processed_invoices'[i].upload_timestamp
            => StatusRank(processed_invoices[i].status)
                  <= StatusRank(processed_invoices'[i].status)]_vars

(***************************************************************************)
(* Claims about the database-backed invoice service (SpecDb).              *)
(***************************************************************************)
InvoicesOf(tenant_id) ==
    {i \in DOMAIN db.invoices : db.invoices[i].tenant_id = tenant_id}

\* C24: for every tenant and every interleaving of uploads and background
\* tasks, the number of invoices accepted for the tenant (invoice rows
\* created, and counted in invoices_processed_month) never exceeds
\* max_invoices_month.
C24_MonthlyQuota ==
    db # <<>> =>
        \A t \in DOMAIN db.tenants :
            /\ Cardinality(InvoicesOf(t)) <= db.tenants[t].max_invoices_month
            /\ db.tenants[t].invoices_processed_month <= db.tenants[t].max_invoices_month

\* the step is a pricing call by a tenant that does not own the invoice
PricedByStranger ==
    /\ db_call'.op \in {"set_invoice_pricing", "confirm_invoice_pricing"}
    /\ db_call'.invoice_id \in DOMAIN db.invoices
    /\ db.invoices[db_call'.invoice_id].tenant_id # db_call'.tenant_id

\* the call raised, or reported nothing updated or confirmed
NothingReported(call) ==
    \/ call.raised
    \/ IF call.op = "set_invoice_pricing" THEN call.result = 0
       ELSE call.result # "confirmed"

\* C25: a set_invoice_pricing or confirm_invoice_pricing call made with a
\* tenant_id that does not own the invoice changes no line item's
\* sale_price, markup_percentage or is_priced, changes no invoice's
\* pricing_status, and does not report the invoice as updated or confirmed.
C25_PricingRespectsOwnership ==
    [][PricedByStranger =>
          /\ db'.line_items = db.line_items
          /\ db'.invoices = db.invoices
          /\ NothingReported(db_call')]_vars

\* C26: an invoice is completed (with line items, the tenant's counter
\* incremented and a billing record) only if analyze_invoice succeeded; when
\* analyze_invoice raises, the invoice ends in status 'failed' with an error
\* message, and no line item or billing record is stored for it.
C26_FailedWhenOcrRaises ==
    (/\ db_call # <<>>
     /\ db_call.op = "finish_processing"
     /\ db_call.result.raised
     /\ db_call.invoice_id \in DOMAIN db.invoices) =>
        /\ db.invoices[db_call.invoice_id].status = "failed"
        /\ db.invoices[db_call.invoice_id].error_message # <<>>
        /\ ~Referring(db, db_call.invoice_id)

Stored(i) == db # <<>> /\ i \in DOMAIN db.invoices

Pending(i) == Stored(i) /\ db.invoices[i].status \in {"uploaded", "processing"}

Settled(i) == Stored(i) /\ db.invoices[i].status \in {"completed", "failed"}

\* once 'completed' or 'failed' the status of a stored invoice does not change
StatusIsFinal ==
    [][\A i \in DOMAIN db.invoices :
          (db.invoices[i].status \in {"completed", "failed"} /\ i \in DOMAIN db'.invoices)
            => db'.invoices[i].status = db.invoices[i].status]_vars

\* C27 as stated: under fair scheduling of the background task, every
\* invoice whose upload returned 'uploaded' eventually reaches 'completed'
\* or 'failed', and once there its status never changes again.
C27_StatedLiveness ==
    /\ \A i \in 1..MaxInvoices : Pending(i) ~> Settled(i)
    /\ StatusIsFinal

\* C27, amended: ... eventually reaches 'completed' or 'failed' unless
\* delete_invoice removes it first, and once there its status never changes
\* again.
C27_Liveness ==
    /\ \A i \in 1..MaxInvoices : Pending(i) ~> (Settled(i) \/ ~Stored(i))
    /\ StatusIsFinal

\* both invoices uploaded and processed to the end, one completed and one
\* failed, no task left
C27_Witness ==
    /\ db # <<>>
    /\ DOMAIN db.invoices = 1..2
    /\ db.invoices[1].status = "completed"
    /\ db.invoices[2].status = "failed"
    /\ DOMAIN tasks = {}

(***************************************************************************)
(* More claims about round_price_colombian (SpecRound).                    *)
(***************************************************************************)
\* the prices the rounded price is compared with: the next price (which
\* gives every pair p <= q by transitivity), the three tier boundaries and
\* the largest price
LaterPrices == {q \in {price + 1, 100, 1000, 10000, MaxPrice} : q >= price}

\* C28: round_price_colombian is monotone and idempotent over non-negative
\* integer prices: for all p <= q, round(p) <= round(q) (also across the tier
\* boundaries 100, 1000 and 10000), and round(round(p)) = round(p).
C28_MonotoneIdempotent ==
    pc = "done" =>
        /\ \A q \in LaterPrices : rounded <= round_price_colombian(q, 1)
        /\ round_price_colombian(rounded, 1) = rounded

\* a price just under a tier boundary is rounded onto the boundary, into the
\* next tier
C28_Witness == pc = "done" /\ price = 9999 /\ rounded = 10000

(***************************************************************************)
(* More claims about recommend_sale_price (SpecPricing).                   *)
(***************************************************************************)
\* the candidate of the returned list made by the given strategy
CandidateOf(method) ==
    Candidates[CHOOSE i \in DOMAIN Candidates : Candidates[i].method = method]

\* C29: for every cost price, quantity and category of the fixed margin
\* table, in a result produced without fallback the 'conservative'
\* candidate's price is <= the 'ml_category' candidate's price, which is <=
\* the 'aggressive' candidate's price, after rounding and after margin
\* clamping.
C29_StrategyOrder ==
    Ranked =>
        /\ ~Less(CandidateOf("ml_category").price, CandidateOf("conservative").price)
        /\ ~Less(CandidateOf("aggressive").price, CandidateOf("ml_category").price)

\* the category price clamped up to the 20% bound and the aggressive price
\* clamped down to the 200% bound, still in order
C29_Witness ==
    /\ Ranked
    /\ CandidateOf("ml_category").adjusted
    /\ CandidateOf("aggressive").adjusted
    /\ Less(CandidateOf("ml_category").price, CandidateOf("aggressive").price)

(***************************************************************************)
(* More claims about the Data Enhancer (SpecEnhance).                      *)
(***************************************************************************)
\* C30: enhance_extracted_data does not modify its input: after the call
\* (whether it returns or raises) every field of the raw invoice data passed
\* in, including each input line item and the supplier and customer blocks,
\* has the value it had before the call.
C30_InputUntouched == [][pc = "start" => raw_data' = raw_data]_vars

====
